---- MODULE Spec2Model ----
(***************************************************************************)
(* Model of the NFT auction templates of tari-project/test-templates:      *)
(*   - NftMarketplace  (src/src/nft_marketplace/src/lib.rs): a registry    *)
(*     of auctions keyed by the NonFungibleAddress of the item;            *)
(*   - Auction         (src/src/nft-marketplace/templates/auction/         *)
(*     src/lib.rs): one component per auction.                             *)
(* Every public method runs inside one ledger transaction: a failed        *)
(* assert!/expect aborts the transaction and nothing it did is kept.       *)
(***************************************************************************)
EXTENDS Integers, Sequences, FiniteSets, TLC

\* ------------------------------------------------------------------ bounds
\* The epoch is advanced up to MaxEpoch, a bid pays 1..MaxAmount tokens, and
\* the marketplace mints at most MaxAuctions badges (successful start_auction
\* calls).
MaxEpoch == 1
MaxAmount == 3
MaxAuctions == 1
\* The index creates at most MaxPools pools.
MaxPools == 3
\* In the ledger with two NFTs on sale the marketplace mints at most
\* MaxItemAuctions badges (forged ones included).
MaxItemAuctions == 2

\* --------------------------------------------------------------- constants
\* Hash::from_array([0u8; 32]): the template address of the account template.
ACCOUNT_TEMPLATE_ADDRESS == 0

\* Option<T>: None is the empty sequence, Some(x) the one-element sequence.
None == << >>
Some(x) == << x >>
IsSome(o) == o # None
Unwrap(o) == o[1]

\* ---------------------------------------------------------------- universe
\* The account components of the tests (seller, bidder1, bidder2) and one
\* component that is no account (the tests' account_nft_component).
Accounts == {"seller", "bidder1", "bidder2"}
Components == Accounts \cup {"account_nft_component"}
\* The components that place the bids: the two bidder accounts and the one that
\* is no account.
Bidders == Components \ {"seller"}
\* The non-fungible ids of the one NFT resource that is put on sale.
NFTs == {"nft1", "nft2"}
\* The payment resource the marketplace accepts, and another resource.
XTR2 == "XTR2"
Resources == {XTR2, "other"}
SELLER_BADGE_RESOURCE == "seller_badge_resource"

\* The inputs of the calls: what a bid pays, the prices and the period of an
\* auction. Every account starts with InitialBalance tokens.
Amounts == 1..MaxAmount
\* With bids of at least 1 token a min_price of 1 is the same as none.
MinPrices == {None, Some(2)}
BuyPrices == {None, Some(1), Some(2)}
Periods == {0, 1}
InitialBalance == MaxAmount

\* component.get_template_address(): 0 for an account, something else otherwise.
get_template_address(component_address) ==
    IF component_address \in Accounts THEN ACCOUNT_TEMPLATE_ADDRESS ELSE 1

\* ------------------------------------------------------------ call results
Ok(w) == [w |-> w, err |-> "ok"]
Fail(w, reason) == [w |-> w, err |-> reason]

\* Faulty variant of assert_component_is_account: every component passes.
assert_component_is_account_any(component_address) ==
    get_template_address(component_address) \in {ACCOUNT_TEMPLATE_ADDRESS, 1}

\* NftMarketplace::assert_component_is_account / Auction::assert_component_is_account
assert_component_is_account(component_address) ==
    get_template_address(component_address) = ACCOUNT_TEMPLATE_ADDRESS

\* -------------------------------------------------------- host primitives
\* account.call("deposit", [bucket]) of a bucket of XTR2 tokens.
DepositFunds(w, account, amount) ==
    [w EXCEPT !.balance[account] = @ + amount]
\* account.call("deposit", [bucket]) of a bucket of NFTs (possibly empty).
DepositNfts(w, account, ids) ==
    [w EXCEPT !.nfts[account] = @ \cup ids]
\* account.call("withdraw", [XTR2, amount]): the payment bucket of a bid.
WithdrawFunds(w, account, amount) ==
    [w EXCEPT !.balance[account] = @ - amount]
\* account.call("withdraw", [nft_resource, ..]): the NFT bucket of a seller.
WithdrawNfts(w, account, ids) ==
    [w EXCEPT !.nfts[account] = @ \ ids]

\* ------------------------------------------------------------------- state
\* current_epoch : Consensus::current_epoch()
\* deployed      : which template the ledger runs, "NftMarketplace" or "Auction"
\* mkt           : the ledger with the NftMarketplace component:
\*                   auctions : BTreeMap<NonFungibleAddress, Auction>
\*                   badges   : the tokens minted of seller_badge_resource, each
\*                              with the NFT its immutable data names
\*                   balance  : XTR2 balance of every account
\*                   nfts     : NFTs held by every account
\* auc           : the ledger with the Auction components:
\*                   auctions : the components created by Auction::new, in
\*                              order; a component's address is its index
\*                   badges   : badges[i] is the one token of component i's
\*                              seller_badge_resource
\*                   balance, nfts : as above
\* last          : the last call that succeeded, with its arguments
\* index         : the ledger with the TariswapIndex component:
\*                   pools      : BTreeMap<PoolKey, ComponentAddress>
\*                   market_fee : the fee handed to every pool
\*                   components : the pool components created, in order; a
\*                                component's address is its index
VARIABLES current_epoch, deployed, mkt, auc, last, index

vars == << current_epoch, deployed, mkt, auc, last, index >>

NoAuction == [exists |-> FALSE]

\* struct Auction (the registry's entry)
NewAuction(ids, seller_address, min_price, buy_price, ending_epoch) ==
    [ exists |-> TRUE,
      vault |-> ids,
      seller_address |-> seller_address,
      min_price |-> min_price,
      buy_price |-> buy_price,
      highest_bid |-> None,
      ending_epoch |-> ending_epoch ]

\* struct Bid
NewBid(bidder_account, amount) ==
    [bidder_account |-> bidder_account, vault |-> amount]

\* ----------------------------------------------- NftMarketplace (registry)
\* NftMarketplace::get_auction
get_auction(w, nft_address) ==
    IF w.auctions[nft_address].exists THEN Some(w.auctions[nft_address]) ELSE None

\* Faulty variant of process_auction_payments: the item is handed over but the vault
\* is not emptied.
process_auction_payments_keeps_item(w, nft_address) ==
    LET auction == w.auctions[nft_address]
        nft_bucket == auction.vault
    IN  IF IsSome(auction.highest_bid)
        THEN LET highest_bid == Unwrap(auction.highest_bid)
                 w2 == DepositNfts(w, highest_bid.bidder_account, nft_bucket)
                 payment == highest_bid.vault
                 w3 == [w2 EXCEPT !.auctions[nft_address].highest_bid =
                                     Some([highest_bid EXCEPT !.vault = @ - payment])]
             IN  Ok(DepositFunds(w3, auction.seller_address, payment))
        ELSE Ok(DepositNfts(w, auction.seller_address, nft_bucket))

\* Faulty variant of process_auction_payments: without a bid the item is taken out of
\* the vault and not deposited into the seller's account.
process_auction_payments_item_not_returned(w, nft_address) ==
    LET auction == w.auctions[nft_address]
        nft_bucket == auction.vault
        w1 == [w EXCEPT !.auctions[nft_address].vault = {}]
    IN  IF IsSome(auction.highest_bid)
        THEN LET highest_bid == Unwrap(auction.highest_bid)
                 w2 == DepositNfts(w1, highest_bid.bidder_account, nft_bucket)
                 payment == highest_bid.vault
                 w3 == [w2 EXCEPT !.auctions[nft_address].highest_bid =
                                     Some([highest_bid EXCEPT !.vault = @ - payment])]
             IN  Ok(DepositFunds(w3, auction.seller_address, payment))
        ELSE Ok(w1)

\* Faulty variant of process_auction_payments: the settled auction is
\* removed from the registry.
process_auction_payments_removes_entry(w, nft_address) ==
    LET auction == w.auctions[nft_address]
        nft_bucket == auction.vault
    IN  IF IsSome(auction.highest_bid)
        THEN LET highest_bid == Unwrap(auction.highest_bid)
                 w2 == DepositNfts(w, highest_bid.bidder_account, nft_bucket)
                 w3 == DepositFunds(w2, auction.seller_address, highest_bid.vault)
             IN  Ok([w3 EXCEPT !.auctions[nft_address] = NoAuction])
        ELSE Ok([DepositNfts(w, auction.seller_address, nft_bucket)
                    EXCEPT !.auctions[nft_address] = NoAuction])

\* NftMarketplace::process_auction_payments.
process_auction_payments(w, nft_address) ==
    LET auction == w.auctions[nft_address]
        nft_bucket == auction.vault
        w1 == [w EXCEPT !.auctions[nft_address].vault = {}]
    IN  IF IsSome(auction.highest_bid)
        THEN LET highest_bid == Unwrap(auction.highest_bid)
                 w2 == DepositNfts(w1, highest_bid.bidder_account, nft_bucket)
                 payment == highest_bid.vault
                 w3 == [w2 EXCEPT !.auctions[nft_address].highest_bid =
                                     Some([highest_bid EXCEPT !.vault = @ - payment])]
             IN  Ok(DepositFunds(w3, auction.seller_address, payment))
        ELSE Ok(DepositNfts(w1, auction.seller_address, nft_bucket))

\* Faulty variant of start_auction: the auction ends at epoch_period, not
\* epoch_period epochs after its creation.
start_auction_ending_at_period(w, epoch, caller, nft_bucket, seller_address, min_price, buy_price, epoch_period) ==
    IF nft_bucket.resource_type # "NonFungible"
    THEN Fail(w, "The resource is not a NFT")
    ELSE IF Cardinality(nft_bucket.ids) # 1
    THEN Fail(w, "Can only start an auction of a single NFT")
    ELSE IF ~(epoch_period > 0)
    THEN Fail(w, "Invalid auction period")
    ELSE IF ~assert_component_is_account(seller_address)
    THEN Fail(w, "Invalid bidder account")
    ELSE
    LET auction == NewAuction(nft_bucket.ids, seller_address, min_price, buy_price,
                              epoch_period)
        nft_address == CHOOSE id \in nft_bucket.ids : TRUE
        w1 == [w EXCEPT !.auctions[nft_address] = auction]
        badge == [nft |-> nft_address, holder |-> caller, burned |-> FALSE]
    IN  Ok([w1 EXCEPT !.badges = Append(@, badge)])

\* Faulty variant of start_auction: epoch_period is not checked.
start_auction_any_period(w, epoch, caller, nft_bucket, seller_address, min_price, buy_price, epoch_period) ==
    IF nft_bucket.resource_type # "NonFungible"
    THEN Fail(w, "The resource is not a NFT")
    ELSE IF Cardinality(nft_bucket.ids) # 1
    THEN Fail(w, "Can only start an auction of a single NFT")
    ELSE IF ~assert_component_is_account(seller_address)
    THEN Fail(w, "Invalid bidder account")
    ELSE
    LET auction == NewAuction(nft_bucket.ids, seller_address, min_price, buy_price,
                              epoch + epoch_period)
        nft_address == CHOOSE id \in nft_bucket.ids : TRUE
        w1 == [w EXCEPT !.auctions[nft_address] = auction]
        badge == [nft |-> nft_address, holder |-> caller, burned |-> FALSE]
    IN  Ok([w1 EXCEPT !.badges = Append(@, badge)])

\* NftMarketplace::start_auction. nft_bucket = [resource_type, ids]; the badge
\* minted is appended to w.badges and returned to the caller, who deposits it.
start_auction(w, epoch, caller, nft_bucket, seller_address, min_price, buy_price, epoch_period) ==
    IF nft_bucket.resource_type # "NonFungible"
    THEN Fail(w, "The resource is not a NFT")
    ELSE IF Cardinality(nft_bucket.ids) # 1
    THEN Fail(w, "Can only start an auction of a single NFT")
    ELSE IF ~(epoch_period > 0)
    THEN Fail(w, "Invalid auction period")
    ELSE IF ~assert_component_is_account(seller_address)
    THEN Fail(w, "Invalid bidder account")
    ELSE
    LET auction == NewAuction(nft_bucket.ids, seller_address, min_price, buy_price,
                              epoch + epoch_period)
        nft_address == CHOOSE id \in nft_bucket.ids : TRUE
        w1 == [w EXCEPT !.auctions[nft_address] = auction]
        badge == [nft |-> nft_address, holder |-> caller, burned |-> FALSE]
    IN  Ok([w1 EXCEPT !.badges = Append(@, badge)])

\* Faulty variant of replace_highest_bid: the payment is added to the vault while the
\* previous escrow is still in it, and nobody is refunded.
replace_highest_bid_tops_up(w, key, bidder_account_address, amount) ==
    LET auction == w.auctions[key] IN
    IF IsSome(auction.highest_bid)
    THEN [w EXCEPT !.auctions[key].highest_bid =
                Some([bidder_account |-> bidder_account_address,
                      vault |-> Unwrap(auction.highest_bid).vault + amount])]
    ELSE [w EXCEPT !.auctions[key].highest_bid =
                Some(NewBid(bidder_account_address, amount))]

\* Faulty variant of replace_highest_bid: the previous escrow is withdrawn but never
\* deposited into the previous bidder's account.
replace_highest_bid_no_refund(w, key, bidder_account_address, amount) ==
    [w EXCEPT !.auctions[key].highest_bid =
                Some(NewBid(bidder_account_address, amount))]

\* Faulty variant of replace_highest_bid: the accepted amount becomes the
\* min_price of the auction.
replace_highest_bid_raises_min_price(w, key, bidder_account_address, amount) ==
    LET auction == w.auctions[key]
        w0 == [w EXCEPT !.auctions[key].min_price = Some(amount)]
    IN
    IF IsSome(auction.highest_bid)
    THEN LET highest_bid == Unwrap(auction.highest_bid)
             wr == DepositFunds(w0, highest_bid.bidder_account, highest_bid.vault)
         IN  [wr EXCEPT !.auctions[key].highest_bid =
                Some(NewBid(bidder_account_address, amount))]
    ELSE [w0 EXCEPT !.auctions[key].highest_bid =
                Some(NewBid(bidder_account_address, amount))]

\* NftMarketplace::bid, "immediatly refund the previous highest bidder if there
\* is one": the previous escrow is withdrawn and deposited into the previous
\* bidder's account, then the slot names the new bidder and holds the payment;
\* without a previous bid a new slot is made. (Auction::bid has the same lines.)
replace_highest_bid(w, key, bidder_account_address, amount) ==
    LET auction == w.auctions[key] IN
    IF IsSome(auction.highest_bid)
    THEN LET highest_bid == Unwrap(auction.highest_bid)
             refund_bucket == highest_bid.vault
             emptied == highest_bid.vault - refund_bucket
             wr == DepositFunds(w, highest_bid.bidder_account, refund_bucket)
         IN  [wr EXCEPT !.auctions[key].highest_bid =
                Some([bidder_account |-> bidder_account_address,
                      vault |-> emptied + amount])]
    ELSE [w EXCEPT !.auctions[key].highest_bid =
                Some(NewBid(bidder_account_address, amount))]

\* Faulty variant of replace_highest_bid_trail: the payment is deposited and
\* the bidder recorded first, the previous escrow refunded afterwards.
replace_highest_bid_trail_refund_last(w, key, bidder_account_address, amount) ==
    IF IsSome(w.auctions[key].highest_bid)
    THEN LET highest_bid == Unwrap(w.auctions[key].highest_bid)
             refund_bucket == highest_bid.vault
             w1 == [w EXCEPT !.auctions[key].highest_bid =
                        Some([highest_bid EXCEPT !.vault = @ + amount])]
             w2 == [w1 EXCEPT !.auctions[key].highest_bid =
                        Some([Unwrap(@) EXCEPT !.bidder_account = bidder_account_address])]
             w3 == [w2 EXCEPT !.auctions[key].highest_bid =
                        Some([Unwrap(@) EXCEPT !.vault = @ - refund_bucket])]
             w4 == DepositFunds(w3, highest_bid.bidder_account, refund_bucket)
         IN  << w, w1, w2, w3, w4 >>
    ELSE << w, [w EXCEPT !.auctions[key].highest_bid =
                    Some(NewBid(bidder_account_address, amount))] >>

\* The same lines of bid, statement by statement: the ledger before them and
\* after withdraw_all, after the deposit of the refund, after the assignment
\* of bidder_account and after the deposit of the payment.
replace_highest_bid_trail(w, key, bidder_account_address, amount) ==
    IF IsSome(w.auctions[key].highest_bid)
    THEN LET highest_bid == Unwrap(w.auctions[key].highest_bid)
             refund_bucket == highest_bid.vault
             w1 == [w EXCEPT !.auctions[key].highest_bid =
                        Some([highest_bid EXCEPT !.vault = @ - refund_bucket])]
             w2 == DepositFunds(w1, highest_bid.bidder_account, refund_bucket)
             w3 == [w2 EXCEPT !.auctions[key].highest_bid =
                        Some([Unwrap(@) EXCEPT !.bidder_account = bidder_account_address])]
             w4 == [w3 EXCEPT !.auctions[key].highest_bid =
                        Some([Unwrap(@) EXCEPT !.vault = @ + amount])]
         IN  << w, w1, w2, w3, w4 >>
    ELSE << w, [w EXCEPT !.auctions[key].highest_bid =
                    Some(NewBid(bidder_account_address, amount))] >>

\* Faulty variant of bid: a payment above buy_price is taken as a bid of buy_price and
\* settles the auction.
bid_capped_at_buy_price(w, epoch, bidder_account_address, nft_address, payment) ==
    IF ~w.auctions[nft_address].exists THEN Fail(w, "Auction does not exist")
    ELSE
    LET auction == w.auctions[nft_address] IN
    IF ~(epoch < auction.ending_epoch)
    THEN Fail(w, "Auction has expired")
    ELSE IF payment.resource # XTR2
    THEN Fail(w, "Invalid payment resource")
    ELSE IF ~assert_component_is_account(bidder_account_address)
    THEN Fail(w, "Invalid bidder account")
    ELSE IF IsSome(auction.min_price) /\ ~(payment.amount >= Unwrap(auction.min_price))
    THEN Fail(w, "Minimum price not met")
    ELSE IF IsSome(auction.highest_bid)
            /\ ~(payment.amount > Unwrap(auction.highest_bid).vault)
    THEN Fail(w, "There is a higher bid placed")
    ELSE
    LET w1 == replace_highest_bid(w, nft_address, bidder_account_address, payment.amount)
    IN  IF IsSome(auction.buy_price) /\ payment.amount >= Unwrap(auction.buy_price)
        THEN process_auction_payments(w1, nft_address)
        ELSE Ok(w1)

\* Faulty variant of bid: the payment resource is checked before the epoch.
bid_checks_resource_first(w, epoch, bidder_account_address, nft_address, payment) ==
    IF ~w.auctions[nft_address].exists THEN Fail(w, "Auction does not exist")
    ELSE
    LET auction == w.auctions[nft_address] IN
    IF payment.resource # XTR2
    THEN Fail(w, "Invalid payment resource")
    ELSE IF ~(epoch < auction.ending_epoch)
    THEN Fail(w, "Auction has expired")
    ELSE IF ~assert_component_is_account(bidder_account_address)
    THEN Fail(w, "Invalid bidder account")
    ELSE IF IsSome(auction.min_price) /\ ~(payment.amount >= Unwrap(auction.min_price))
    THEN Fail(w, "Minimum price not met")
    ELSE IF IsSome(auction.highest_bid)
            /\ ~(payment.amount > Unwrap(auction.highest_bid).vault)
    THEN Fail(w, "There is a higher bid placed")
    ELSE
    LET w1 == replace_highest_bid(w, nft_address, bidder_account_address, payment.amount)
    IN  IF IsSome(auction.buy_price)
        THEN IF ~(payment.amount <= Unwrap(auction.buy_price))
             THEN Fail(w1, "Payment exceeds the buying price")
             ELSE IF payment.amount = Unwrap(auction.buy_price)
                  THEN process_auction_payments(w1, nft_address)
                  ELSE Ok(w1)
        ELSE Ok(w1)

\* NftMarketplace::bid. payment = [resource, amount].
bid(w, epoch, bidder_account_address, nft_address, payment) ==
    IF ~w.auctions[nft_address].exists THEN Fail(w, "Auction does not exist")
    ELSE
    LET auction == w.auctions[nft_address] IN
    IF ~(epoch < auction.ending_epoch)
    THEN Fail(w, "Auction has expired")
    ELSE IF payment.resource # XTR2
    THEN Fail(w, "Invalid payment resource")
    ELSE IF ~assert_component_is_account(bidder_account_address)
    THEN Fail(w, "Invalid bidder account")
    ELSE IF IsSome(auction.min_price) /\ ~(payment.amount >= Unwrap(auction.min_price))
    THEN Fail(w, "Minimum price not met")
    ELSE IF IsSome(auction.highest_bid)
            /\ ~(payment.amount > Unwrap(auction.highest_bid).vault)
    THEN Fail(w, "There is a higher bid placed")
    ELSE
    LET w1 == replace_highest_bid(w, nft_address, bidder_account_address, payment.amount)
    IN  IF IsSome(auction.buy_price)
        THEN IF ~(payment.amount <= Unwrap(auction.buy_price))
             THEN Fail(w1, "Payment exceeds the buying price")
             ELSE IF payment.amount = Unwrap(auction.buy_price)
                  THEN process_auction_payments(w1, nft_address)
                  ELSE Ok(w1)
        ELSE Ok(w1)

\* The statements a call runs: those of the method in program order, up to
\* and including the first check that fails.
Executed(steps) ==
    LET failed == {i \in DOMAIN steps : steps[i].kind = "check" /\ ~steps[i].passes}
    IN  IF failed = {} THEN steps
        ELSE SubSeq(steps, 1, CHOOSE i \in failed : \A j \in failed : i <= j)

\* Faulty variant of bid_steps: min_price is checked once the bid is recorded.
bid_steps_min_price_late(auction, epoch, bidder_account_address, payment) ==
    LET Check(what, passes) == [kind |-> "check", what |-> what, passes |-> passes]
        Mutation(what) == [kind |-> "mutation", what |-> what, passes |-> TRUE]
        amount == payment.amount
    IN  << Check("Auction has expired", epoch < auction.ending_epoch),
           Check("Invalid payment resource", payment.resource = XTR2),
           Check("Invalid bidder account", assert_component_is_account(bidder_account_address)) >>
        \o (IF IsSome(auction.highest_bid)
            THEN << Check("There is a higher bid placed",
                          amount > Unwrap(auction.highest_bid).vault),
                    Mutation("highest_bid.vault.withdraw_all"),
                    Mutation("previous_bidder_account.deposit"),
                    Mutation("highest_bid.bidder_account ="),
                    Mutation("highest_bid.vault.deposit") >>
            ELSE << Mutation("highest_bid = Some") >>)
        \o (IF IsSome(auction.min_price)
            THEN << Check("Minimum price not met", amount >= Unwrap(auction.min_price)) >>
            ELSE << >>)
        \o (IF IsSome(auction.buy_price)
            THEN << Check("Payment exceeds the buying price",
                          amount <= Unwrap(auction.buy_price)) >>
                 \o (IF amount = Unwrap(auction.buy_price)
                     THEN << Mutation("process_auction_payments") >> ELSE << >>)
            ELSE << >>)

\* NftMarketplace::bid, statement by statement, on an auction the registry
\* holds: the checks (assertions, with their outcome) and the mutations (of
\* the bid slot, a vault or an account) in program order.
bid_steps(auction, epoch, bidder_account_address, payment) ==
    LET Check(what, passes) == [kind |-> "check", what |-> what, passes |-> passes]
        Mutation(what) == [kind |-> "mutation", what |-> what, passes |-> TRUE]
        amount == payment.amount
    IN  << Check("Auction has expired", epoch < auction.ending_epoch),
           Check("Invalid payment resource", payment.resource = XTR2),
           Check("Invalid bidder account", assert_component_is_account(bidder_account_address)) >>
        \o (IF IsSome(auction.min_price)
            THEN << Check("Minimum price not met", amount >= Unwrap(auction.min_price)) >>
            ELSE << >>)
        \o (IF IsSome(auction.highest_bid)
            THEN << Check("There is a higher bid placed",
                          amount > Unwrap(auction.highest_bid).vault),
                    Mutation("highest_bid.vault.withdraw_all"),
                    Mutation("previous_bidder_account.deposit"),
                    Mutation("highest_bid.bidder_account ="),
                    Mutation("highest_bid.vault.deposit") >>
            ELSE << Mutation("highest_bid = Some") >>)
        \o (IF IsSome(auction.buy_price)
            THEN << Check("Payment exceeds the buying price",
                          amount <= Unwrap(auction.buy_price)) >>
                 \o (IF amount = Unwrap(auction.buy_price)
                     THEN << Mutation("process_auction_payments") >> ELSE << >>)
            ELSE << >>)

\* Auction::bid, statement by statement.
auction_bid_steps(auction, epoch, bidder_account_address, payment) ==
    LET Check(what, passes) == [kind |-> "check", what |-> what, passes |-> passes]
        Mutation(what) == [kind |-> "mutation", what |-> what, passes |-> TRUE]
        amount == payment.amount
    IN  << Check("Auction has expired", epoch < auction.ending_epoch),
           Check("Invalid payment resource", payment.resource = XTR2),
           Check("Invalid bidder account", assert_component_is_account(bidder_account_address)) >>
        \o (IF IsSome(auction.min_price)
            THEN << Check("Minimum price not met", amount >= Unwrap(auction.min_price)) >>
            ELSE << >>)
        \o (IF IsSome(auction.highest_bid)
            THEN << Check("There is a higher bid placed",
                          amount > Unwrap(auction.highest_bid).vault),
                    Mutation("highest_bid.vault.withdraw_all"),
                    Mutation("previous_bidder_account.deposit"),
                    Mutation("highest_bid.bidder_account ="),
                    Mutation("highest_bid.vault.deposit") >>
            ELSE << Mutation("highest_bid = Some") >>)
        \o (IF IsSome(auction.buy_price)
            THEN << Check("Payment exceeds the buying price",
                          amount <= Unwrap(auction.buy_price)) >>
                 \o (IF amount = Unwrap(auction.buy_price)
                     THEN << Mutation("process_payments") >> ELSE << >>)
            ELSE << >>)

\* Faulty variant of finish_auction: the auction can be finished one epoch early.
finish_auction_one_epoch_early(w, epoch, nft_address) ==
    IF ~w.auctions[nft_address].exists THEN Fail(w, "Auction does not exist")
    ELSE IF ~(epoch + 1 >= w.auctions[nft_address].ending_epoch)
    THEN Fail(w, "Auction is still in progress")
    ELSE process_auction_payments(w, nft_address)

\* Faulty variant of finish_auction: an item without registry entry is
\* taken as an auction with nothing to settle.
finish_auction_unknown_key_ignored(w, epoch, nft_address) ==
    IF ~w.auctions[nft_address].exists THEN Ok(w)
    ELSE IF ~(epoch >= w.auctions[nft_address].ending_epoch)
    THEN Fail(w, "Auction is still in progress")
    ELSE process_auction_payments(w, nft_address)

\* NftMarketplace::finish_auction
finish_auction(w, epoch, nft_address) ==
    IF ~w.auctions[nft_address].exists THEN Fail(w, "Auction does not exist")
    ELSE IF ~(epoch >= w.auctions[nft_address].ending_epoch)
    THEN Fail(w, "Auction is still in progress")
    ELSE process_auction_payments(w, nft_address)

\* Faulty variant of refund_highest_bid: the highest bid of every auction of
\* the registry is paid back and cleared.
refund_highest_bid_of_all(w, nft_address) ==
    LET refund(x, key) ==
            IF x.auctions[key].exists /\ IsSome(x.auctions[key].highest_bid)
            THEN LET highest_bid == Unwrap(x.auctions[key].highest_bid)
                     wr == DepositFunds(x, highest_bid.bidder_account, highest_bid.vault)
                 IN  [wr EXCEPT !.auctions[key].highest_bid = None]
            ELSE x
    IN  refund(refund(w, "nft1"), "nft2")

\* NftMarketplace::cancel_auction, "pay back the highest bidded (if there's
\* one)": the escrow goes back to the bidder and the slot is cleared.
refund_highest_bid(w, nft_address) ==
    LET auction == w.auctions[nft_address] IN
    IF IsSome(auction.highest_bid)
    THEN LET highest_bid == Unwrap(auction.highest_bid)
             refund_bucket == highest_bid.vault
             wr == DepositFunds(w, highest_bid.bidder_account, refund_bucket)
         IN  [wr EXCEPT !.auctions[nft_address].highest_bid = None]
    ELSE w

\* Faulty variant of cancel_auction: an auction can still be cancelled in its
\* ending epoch.
cancel_auction_in_ending_epoch(w, epoch, seller_badge_bucket) ==
    IF seller_badge_bucket.resource # SELLER_BADGE_RESOURCE
    THEN Fail(w, "Invalid seller badge resource")
    ELSE IF seller_badge_bucket.ids = << >>
    THEN Fail(w, "index out of bounds")
    ELSE
    LET nft_address == w.badges[seller_badge_bucket.ids[1]].nft IN
    IF ~w.auctions[nft_address].exists THEN Fail(w, "Auction does not exist")
    ELSE IF ~(epoch <= w.auctions[nft_address].ending_epoch)
    THEN Fail(w, "Auction has ended")
    ELSE process_auction_payments(refund_highest_bid(w, nft_address), nft_address)

\* NftMarketplace::cancel_auction. seller_badge_bucket = [resource, ids], ids a
\* sequence of indexes into w.badges. The bucket is neither burned nor
\* deposited by the method: the badge stays with whoever presented it.
cancel_auction(w, epoch, seller_badge_bucket) ==
    IF seller_badge_bucket.resource # SELLER_BADGE_RESOURCE
    THEN Fail(w, "Invalid seller badge resource")
    ELSE IF seller_badge_bucket.ids = << >>
    THEN Fail(w, "index out of bounds")
    ELSE
    LET seller_badge == w.badges[seller_badge_bucket.ids[1]]
        nft_address == seller_badge.nft
    IN
    IF ~w.auctions[nft_address].exists THEN Fail(w, "Auction does not exist")
    ELSE
    LET auction == w.auctions[nft_address] IN
    IF ~(epoch < auction.ending_epoch)
    THEN Fail(w, "Auction has ended")
    ELSE
    process_auction_payments(refund_highest_bid(w, nft_address), nft_address)

\* ------------------------------------------- Auction (one per component)
\* Faulty variant of process_payments: with a bid, the item is deposited into
\* the bidder's account and into the seller's account.
process_payments_item_to_both(w, component) ==
    LET auction == w.auctions[component]
        nft_bucket == auction.vault
        w1 == [w EXCEPT !.auctions[component].vault = {}]
    IN  IF IsSome(auction.highest_bid)
        THEN LET highest_bid == Unwrap(auction.highest_bid)
                 w2 == DepositNfts(DepositNfts(w1, highest_bid.bidder_account, nft_bucket),
                                   auction.seller_address, nft_bucket)
                 payment == highest_bid.vault
                 w3 == [w2 EXCEPT !.auctions[component].highest_bid =
                                     Some([highest_bid EXCEPT !.vault = @ - payment])]
             IN  Ok(DepositFunds(w3, auction.seller_address, payment))
        ELSE Ok(DepositNfts(w1, auction.seller_address, nft_bucket))

\* Auction::process_payments
process_payments(w, component) ==
    LET auction == w.auctions[component]
        nft_bucket == auction.vault
        w1 == [w EXCEPT !.auctions[component].vault = {}]
    IN  IF IsSome(auction.highest_bid)
        THEN LET highest_bid == Unwrap(auction.highest_bid)
                 w2 == DepositNfts(w1, highest_bid.bidder_account, nft_bucket)
                 payment == highest_bid.vault
                 w3 == [w2 EXCEPT !.auctions[component].highest_bid =
                                     Some([highest_bid EXCEPT !.vault = @ - payment])]
             IN  Ok(DepositFunds(w3, auction.seller_address, payment))
        ELSE Ok(DepositNfts(w1, auction.seller_address, nft_bucket))

\* Auction::new. The badge resource is built with its one token, which is
\* returned to the caller; the resource of component i is i.
auction_new(w, epoch, caller, nft_bucket, seller_address, min_price, buy_price, epoch_period) ==
    IF nft_bucket.resource_type # "NonFungible"
    THEN Fail(w, "The resource is not a NFT")
    ELSE IF Cardinality(nft_bucket.ids) # 1
    THEN Fail(w, "Can only start an auction of a single NFT")
    ELSE IF ~(epoch_period > 0)
    THEN Fail(w, "Invalid auction period")
    ELSE IF ~assert_component_is_account(seller_address)
    THEN Fail(w, "Invalid bidder account")
    ELSE
    LET seller_badge_resource == Len(w.auctions) + 1
        seller_badge == [nft |-> CHOOSE id \in nft_bucket.ids : TRUE,
                         holder |-> caller, burned |-> FALSE]
        auction == NewAuction(nft_bucket.ids, seller_address, min_price, buy_price,
                              epoch + epoch_period)
    IN  Ok([w EXCEPT !.auctions = Append(@, auction),
                     !.badges = Append(@, seller_badge)])

\* Faulty variant of auction_bid: min_price is not checked.
auction_bid_ignores_min_price(w, epoch, component, bidder_account_address, payment) ==
    LET auction == w.auctions[component] IN
    IF ~(epoch < auction.ending_epoch)
    THEN Fail(w, "Auction has expired")
    ELSE IF payment.resource # XTR2
    THEN Fail(w, "Invalid payment resource")
    ELSE IF ~assert_component_is_account(bidder_account_address)
    THEN Fail(w, "Invalid bidder account")
    ELSE IF IsSome(auction.highest_bid)
            /\ ~(payment.amount > Unwrap(auction.highest_bid).vault)
    THEN Fail(w, "There is a higher bid placed")
    ELSE
    LET w1 == replace_highest_bid(w, component, bidder_account_address, payment.amount)
    IN  IF IsSome(auction.buy_price)
        THEN IF ~(payment.amount <= Unwrap(auction.buy_price))
             THEN Fail(w1, "Payment exceeds the buying price")
             ELSE IF payment.amount = Unwrap(auction.buy_price)
                  THEN process_payments(w1, component)
                  ELSE Ok(w1)
        ELSE Ok(w1)

\* Auction::bid
auction_bid(w, epoch, component, bidder_account_address, payment) ==
    LET auction == w.auctions[component] IN
    IF ~(epoch < auction.ending_epoch)
    THEN Fail(w, "Auction has expired")
    ELSE IF payment.resource # XTR2
    THEN Fail(w, "Invalid payment resource")
    ELSE IF ~assert_component_is_account(bidder_account_address)
    THEN Fail(w, "Invalid bidder account")
    ELSE IF IsSome(auction.min_price) /\ ~(payment.amount >= Unwrap(auction.min_price))
    THEN Fail(w, "Minimum price not met")
    ELSE IF IsSome(auction.highest_bid)
            /\ ~(payment.amount > Unwrap(auction.highest_bid).vault)
    THEN Fail(w, "There is a higher bid placed")
    ELSE
    LET w1 == replace_highest_bid(w, component, bidder_account_address, payment.amount)
    IN  IF IsSome(auction.buy_price)
        THEN IF ~(payment.amount <= Unwrap(auction.buy_price))
             THEN Fail(w1, "Payment exceeds the buying price")
             ELSE IF payment.amount = Unwrap(auction.buy_price)
                  THEN process_payments(w1, component)
                  ELSE Ok(w1)
        ELSE Ok(w1)

\* Faulty variant of auction_finish: the auction can be finished at any epoch.
auction_finish_any_epoch(w, epoch, component) ==
    process_payments(w, component)

\* Auction::finish
auction_finish(w, epoch, component) ==
    IF ~(epoch >= w.auctions[component].ending_epoch)
    THEN Fail(w, "Auction is still in progress")
    ELSE process_payments(w, component)

\* Auction::cancel, "pay back the highest bidded (if there's one)": the escrow
\* goes back to the bidder; the slot is kept, with its vault empty.
auction_refund_highest_bid(w, component) ==
    LET auction == w.auctions[component] IN
    IF IsSome(auction.highest_bid)
    THEN LET highest_bid == Unwrap(auction.highest_bid)
             refund_bucket == highest_bid.vault
             wr == DepositFunds(w, highest_bid.bidder_account, refund_bucket)
         IN  [wr EXCEPT !.auctions[component].highest_bid =
                Some([highest_bid EXCEPT !.vault = @ - refund_bucket])]
    ELSE w

\* Faulty variant of auction_cancel: the resource of the bucket is not checked.
auction_cancel_any_badge(w, epoch, component, seller_badge_bucket) ==
    LET auction == w.auctions[component] IN
    IF ~(epoch < auction.ending_epoch)
    THEN Fail(w, "Auction has ended")
    ELSE
    LET w1 == auction_refund_highest_bid(w, component)
        nft_bucket == auction.vault
        w3 == [w1 EXCEPT !.auctions[component].vault = {}]
    IN  Ok(DepositNfts(w3, auction.seller_address, nft_bucket))

\* Auction::cancel. seller_badge_bucket = [resource, ids]: the badge resource
\* of a component (its index) or another resource, and the tokens presented.
\* The bid is refunded but the bid slot is kept (self.highest_bid = None is
\* commented out); the bucket is burned; the NFT goes back to the seller.
auction_cancel(w, epoch, component, seller_badge_bucket) ==
    LET auction == w.auctions[component] IN
    IF seller_badge_bucket.resource # component
    THEN Fail(w, "Invalid seller badge")
    ELSE IF ~(epoch < auction.ending_epoch)
    THEN Fail(w, "Auction has ended")
    ELSE
    LET w1 == auction_refund_highest_bid(w, component)
        w2 == [w1 EXCEPT !.badges =
                 [i \in DOMAIN @ |->
                    IF i = seller_badge_bucket.resource /\ seller_badge_bucket.ids # << >>
                    THEN [@[i] EXCEPT !.burned = TRUE] ELSE @[i]]]
        nft_bucket == auction.vault
        w3 == [w2 EXCEPT !.auctions[component].vault = {}]
    IN  Ok(DepositNfts(w3, auction.seller_address, nft_bucket))

\* ------------------------------------------------------------ transactions
\* A transaction keeps its effects only if the call succeeded.
Commit(w, r) == IF r.err = "ok" THEN r.w ELSE w

\* The record of the last call that succeeded, with the bid slot it found
\* (prior): a call that fails is rolled back by the ledger and leaves no
\* trace, neither here nor anywhere else.
Call(op, key, who, amount, prior, r) ==
    IF r.err = "ok"
    THEN [op |-> op, key |-> key, who |-> who, amount |-> amount, prior |-> prior]
    ELSE last

\* The bid slot of an auction, None when the registry has no such entry.
Slot(w, key) ==
    IF key \in DOMAIN w.auctions /\ w.auctions[key].exists
    THEN w.auctions[key].highest_bid ELSE None

\* The buckets a caller can hand to start_auction / Auction::new: some of the
\* NFTs of its account, or a bucket of a fungible resource.
NftBuckets(w, caller) ==
    {[resource_type |-> "NonFungible", ids |-> ids] : ids \in SUBSET w.nfts[caller]}
    \cup {[resource_type |-> "Fungible", ids |-> {}]}

\* The seller_address a caller passes: its own account, or a component that is
\* no account.
SellerAddresses(caller) == {caller, "account_nft_component"}

\* The payments of a bid: 1..MaxAmount XTR2 tokens, or a token of another resource.
Payments ==
    {[resource |-> XTR2, amount |-> a] : a \in Amounts}
    \cup {[resource |-> "other", amount |-> 1]}

\* The account a bid's payment is withdrawn from: the bidder's own.
Payer(bidder_account_address) ==
    IF bidder_account_address \in Accounts THEN bidder_account_address ELSE "seller"

CanPay(w, bidder_account_address, payment) ==
    payment.resource = XTR2 => payment.amount <= w.balance[Payer(bidder_account_address)]

\* The ledger after the payment bucket of a bid was withdrawn.
Paid(w, bidder_account_address, payment) ==
    IF payment.resource = XTR2
    THEN WithdrawFunds(w, Payer(bidder_account_address), payment.amount)
    ELSE w

\* The badge buckets that can be handed to cancel: a badge withdrawn from the
\* account that holds it, or a bucket of another resource ("other"; 0 where
\* the badge resources are the component indexes).
MktBadgeBuckets(w) ==
    {[resource |-> SELLER_BADGE_RESOURCE, ids |-> << i >>] :
        i \in {j \in DOMAIN w.badges : ~w.badges[j].burned}}
    \cup {[resource |-> SELLER_BADGE_RESOURCE, ids |-> << >>],
          [resource |-> "other", ids |-> << >>]}

\* The NFT that the badge in a bucket names ("-" for a bucket without badge).
BadgeNft(w, seller_badge_bucket) ==
    IF seller_badge_bucket.resource = SELLER_BADGE_RESOURCE /\ seller_badge_bucket.ids # << >>
    THEN w.badges[seller_badge_bucket.ids[1]].nft ELSE "-"

AucBadgeBuckets(w) ==
    {[resource |-> i, ids |-> << i >>] :
        i \in {j \in DOMAIN w.badges : ~w.badges[j].burned}}
    \cup {[resource |-> 0, ids |-> << >>]}

\* ------------------------------------------------------------ TariswapIndex
\* The resource addresses handed to create_pool, in their order.
PoolResources == {1, 2, 3}

\* Faulty variant of build_pool_key: the pair is kept in argument order.
build_pool_key_unsorted(a_addr, b_addr) == << a_addr, b_addr >>

\* TariswapIndex::build_pool_key
build_pool_key(a_addr, b_addr) ==
    IF a_addr <= b_addr THEN << a_addr, b_addr >> ELSE << b_addr, a_addr >>

PoolKeys == PoolResources \X PoolResources

\* TariswapPool::new, called through the template manager: a component is
\* created and its address returned.
pool_new(x, a_addr, b_addr, market_fee) ==
    [x EXCEPT !.components = Append(@, [a |-> a_addr, b |-> b_addr, market_fee |-> market_fee])]

\* Faulty variant of create_pool: a pool that exists is replaced by a new one.
create_pool_replaces(x, a_addr, b_addr) ==
    LET pool_key == build_pool_key(a_addr, b_addr)
        x1 == pool_new(x, pool_key[1], pool_key[2], x.market_fee)
        pool_component == Len(x1.components)
    IN  Ok([x1 EXCEPT !.pools[pool_key] = Some(pool_component)])

\* TariswapIndex::create_pool
create_pool(x, a_addr, b_addr) ==
    LET pool_key == build_pool_key(a_addr, b_addr) IN
    IF IsSome(x.pools[pool_key])
    THEN Fail(x, "A pool already exists for the input resources")
    ELSE LET x1 == pool_new(x, pool_key[1], pool_key[2], x.market_fee)
             pool_component == Len(x1.components)
         IN  Ok([x1 EXCEPT !.pools[pool_key] = Some(pool_component)])

\* TariswapIndex::get_pools
get_pools(x) == {k \in PoolKeys : IsSome(x.pools[k])}

\* TariswapIndex::new, with the fee of the tests.
InitIndex ==
    [ pools |-> [k \in PoolKeys |-> None], market_fee |-> 50, components |-> << >> ]

InitLedger ==
    [ auctions |-> << >>,
      badges |-> << >>,
      balance |-> [a \in Accounts |-> InitialBalance],
      nfts |-> [a \in Accounts |-> IF a = "seller" THEN {"nft1"} ELSE {}] ]

\* NftMarketplace::new: no auction, no badge.
InitMkt == [InitLedger EXCEPT !.auctions = [n \in NFTs |-> NoAuction]]

NoCall == [op |-> "new", key |-> "-", who |-> "-", amount |-> 0, prior |-> None]

Init ==
    /\ current_epoch = 0
    /\ deployed \in {"NftMarketplace", "Auction"}
    /\ mkt = InitMkt
    /\ auc = InitLedger
    /\ last = NoCall
    /\ index = InitIndex

\* The host advances the epoch.
AdvanceEpoch ==
    /\ current_epoch < MaxEpoch
    /\ current_epoch' = current_epoch + 1
    /\ UNCHANGED << deployed, mkt, auc, last, index >>

\* withdraw the NFT(s) from the caller's account; start_auction; deposit the badge.
StartAuctionWithin(limit, min_prices, buy_prices) ==
    /\ deployed = "NftMarketplace"
    /\ Len(mkt.badges) < limit
    /\ \E caller \in Accounts, min_price \in min_prices, buy_price \in buy_prices,
          epoch_period \in Periods :
       \E nft_bucket \in NftBuckets(mkt, caller), seller_address \in SellerAddresses(caller) :
         LET r == start_auction(WithdrawNfts(mkt, caller, nft_bucket.ids), current_epoch,
                                caller, nft_bucket, seller_address,
                                min_price, buy_price, epoch_period)
         IN  /\ mkt' = Commit(mkt, r)
             /\ last' = Call("start_auction",
                             IF Cardinality(nft_bucket.ids) = 1
                             THEN CHOOSE id \in nft_bucket.ids : TRUE ELSE "-",
                             seller_address, 0, None, r)
    /\ UNCHANGED << current_epoch, deployed, auc, index >>

MktStartAuction == StartAuctionWithin(MaxAuctions, MinPrices, BuyPrices)

\* withdraw the payment from the bidder's account; bid.
BidOf(payments) ==
    /\ deployed = "NftMarketplace"
    /\ \E bidder_account_address \in Bidders, nft_address \in NFTs, payment \in payments :
         /\ CanPay(mkt, bidder_account_address, payment)
         /\ LET r == bid(Paid(mkt, bidder_account_address, payment), current_epoch,
                         bidder_account_address, nft_address, payment)
            IN  /\ mkt' = Commit(mkt, r)
                /\ last' = Call("bid", nft_address, bidder_account_address, payment.amount,
                                Slot(mkt, nft_address), r)
    /\ UNCHANGED << current_epoch, deployed, auc, index >>

MktBid == BidOf(Payments)

MktFinishAuction ==
    /\ deployed = "NftMarketplace"
    /\ \E nft_address \in NFTs :
         LET r == finish_auction(mkt, current_epoch, nft_address)
         IN  /\ mkt' = Commit(mkt, r)
             /\ last' = Call("finish", nft_address, "-", 0, Slot(mkt, nft_address), r)
    /\ UNCHANGED << current_epoch, deployed, auc, index >>

\* withdraw the badge from the account that holds it; cancel_auction.
MktCancelAuction ==
    /\ deployed = "NftMarketplace"
    /\ \E seller_badge_bucket \in MktBadgeBuckets(mkt) :
         LET r == cancel_auction(mkt, current_epoch, seller_badge_bucket)
         IN  /\ mkt' = Commit(mkt, r)
             /\ last' = Call("cancel", BadgeNft(mkt, seller_badge_bucket), "-", 0,
                             Slot(mkt, BadgeNft(mkt, seller_badge_bucket)), r)
    /\ UNCHANGED << current_epoch, deployed, auc, index >>

\* withdraw the NFT(s) from the caller's account; Auction::new; deposit the badge.
\* Every call of new creates a component of its own, with its own vaults and
\* badge resource: the ledger studied holds one.
AucNew ==
    /\ deployed = "Auction"
    /\ auc.auctions = << >>
    /\ \E caller \in Accounts, min_price \in MinPrices, buy_price \in BuyPrices,
          epoch_period \in Periods :
       \E nft_bucket \in NftBuckets(auc, caller), seller_address \in SellerAddresses(caller) :
         LET r == auction_new(WithdrawNfts(auc, caller, nft_bucket.ids), current_epoch,
                              caller, nft_bucket, seller_address,
                              min_price, buy_price, epoch_period)
         IN  /\ auc' = Commit(auc, r)
             /\ last' = Call("start_auction", Len(auc.auctions) + 1, seller_address, 0, None, r)
    /\ UNCHANGED << current_epoch, deployed, mkt, index >>

AucBid ==
    /\ deployed = "Auction"
    /\ \E component \in DOMAIN auc.auctions, bidder_account_address \in Bidders,
          payment \in Payments :
         /\ CanPay(auc, bidder_account_address, payment)
         /\ LET r == auction_bid(Paid(auc, bidder_account_address, payment), current_epoch,
                                 component, bidder_account_address, payment)
            IN  /\ auc' = Commit(auc, r)
                /\ last' = Call("bid", component, bidder_account_address, payment.amount,
                                Slot(auc, component), r)
    /\ UNCHANGED << current_epoch, deployed, mkt, index >>

AucFinish ==
    /\ deployed = "Auction"
    /\ \E component \in DOMAIN auc.auctions :
         LET r == auction_finish(auc, current_epoch, component)
         IN  /\ auc' = Commit(auc, r)
             /\ last' = Call("finish", component, "-", 0, Slot(auc, component), r)
    /\ UNCHANGED << current_epoch, deployed, mkt, index >>

AucCancel ==
    /\ deployed = "Auction"
    /\ \E component \in DOMAIN auc.auctions, seller_badge_bucket \in AucBadgeBuckets(auc) :
         LET r == auction_cancel(auc, current_epoch, component, seller_badge_bucket)
         IN  /\ auc' = Commit(auc, r)
             /\ last' = Call("cancel", component, "-", 0, Slot(auc, component), r)
    /\ UNCHANGED << current_epoch, deployed, mkt, index >>

Next ==
    \/ AdvanceEpoch
    \/ MktStartAuction
    \/ MktBid
    \/ MktFinishAuction
    \/ MktCancelAuction
    \/ AucNew
    \/ AucBid
    \/ AucFinish
    \/ AucCancel

Spec == Init /\ [][Next]_vars

\* ------------------------------------------- two NFTs on sale, open minting
\* The "mintable" access rule of the badge resource: AllowAll for the one of
\* the marketplace (NftMarketplace::new), DenyAll for the one of an Auction
\* component (Auction::new).
MKT_SELLER_BADGE_MINTABLE == "AllowAll"
AUC_SELLER_BADGE_MINTABLE == "DenyAll"

\* A mint of a badge token by a transaction of caller, outside the templates:
\* the ledger applies the access rule of the resource. The token names nft.
mint_non_fungible(w, mintable, caller, nft) ==
    IF mintable # "AllowAll"
    THEN Fail(w, "Access denied")
    ELSE Ok([w EXCEPT !.badges =
                Append(@, [nft |-> nft, holder |-> caller, burned |-> FALSE])])

\* The account that tries to mint badges of its own.
Minters == {"bidder2"}

\* The bids of this ledger pay one token; its auctions have no prices.
ItemsPayments == {[resource |-> XTR2, amount |-> 1]}

\* The seller holds both NFTs.
InitItems ==
    /\ current_epoch = 0
    /\ deployed \in {"NftMarketplace", "Auction"}
    /\ mkt = [InitMkt EXCEPT !.nfts["seller"] = NFTs]
    /\ auc = InitLedger
    /\ last = NoCall
    /\ index = InitIndex

ItemsStartAuction == StartAuctionWithin(MaxItemAuctions, {None}, {None})

ItemsBid == BidOf(ItemsPayments)

MktMintBadge ==
    /\ deployed = "NftMarketplace"
    /\ Len(mkt.badges) < MaxItemAuctions
    /\ \E caller \in Minters, nft \in NFTs :
         LET r == mint_non_fungible(mkt, MKT_SELLER_BADGE_MINTABLE, caller, nft)
         IN  /\ mkt' = Commit(mkt, r)
             /\ last' = Call("mint", nft, caller, 0, None, r)
    /\ UNCHANGED << current_epoch, deployed, auc, index >>

AucMintBadge ==
    /\ deployed = "Auction"
    /\ \E component \in DOMAIN auc.auctions, caller \in Minters :
         LET r == mint_non_fungible(auc, AUC_SELLER_BADGE_MINTABLE, caller,
                                    auc.badges[component].nft)
         IN  /\ auc' = Commit(auc, r)
             /\ last' = Call("mint", component, caller, 0, None, r)
    /\ UNCHANGED << current_epoch, deployed, mkt, index >>

NextItems ==
    \/ AdvanceEpoch
    \/ ItemsStartAuction
    \/ ItemsBid
    \/ MktFinishAuction
    \/ MktCancelAuction
    \/ MktMintBadge
    \/ AucNew
    \/ AucBid
    \/ AucFinish
    \/ AucCancel
    \/ AucMintBadge

SpecItems == InitItems /\ [][NextItems]_vars


\* ------------------------------------------------- the TariswapIndex ledger
InitPools ==
    /\ current_epoch = 0
    /\ deployed = "TariswapIndex"
    /\ mkt = InitMkt
    /\ auc = InitLedger
    /\ last = NoCall
    /\ index = InitIndex

CreatePool ==
    /\ deployed = "TariswapIndex"
    /\ Len(index.components) < MaxPools
    /\ \E a_addr \in PoolResources, b_addr \in PoolResources :
         LET r == create_pool(index, a_addr, b_addr)
         IN  /\ index' = Commit(index, r)
             /\ last' = Call("create_pool", build_pool_key(a_addr, b_addr), "-", 0, None, r)
    /\ UNCHANGED << current_epoch, deployed, mkt, auc >>

NextPools == CreatePool

SpecPools == InitPools /\ [][NextPools]_vars

\* ------------------------------------- both templates, driven side by side
\* The two ledgers of the state take the same calls: the registry with its one
\* entry (for nft1) in mkt, the Auction component (component 1) in auc.
InitBoth ==
    /\ current_epoch = 0
    /\ deployed = "Both"
    /\ mkt = InitMkt
    /\ auc = InitLedger
    /\ last = NoCall
    /\ index = InitIndex

\* The record of a call that succeeded in one of the two ledgers.
CallOfBoth(op, key, who, amount, prior, rm, ra) ==
    Call(op, key, who, amount, prior, IF rm.err = "ok" THEN rm ELSE ra)

\* start_auction and Auction::new with the same arguments, while neither
\* ledger has an auction.
BothNew ==
    /\ deployed = "Both"
    /\ \A nft \in NFTs : get_auction(mkt, nft) = None
    /\ auc.auctions = << >>
    /\ \E caller \in Accounts, min_price \in MinPrices, buy_price \in BuyPrices,
          epoch_period \in Periods :
       \E nft_bucket \in NftBuckets(mkt, caller) \cap NftBuckets(auc, caller),
          seller_address \in SellerAddresses(caller) :
         LET rm == start_auction(WithdrawNfts(mkt, caller, nft_bucket.ids), current_epoch,
                                 caller, nft_bucket, seller_address,
                                 min_price, buy_price, epoch_period)
             ra == auction_new(WithdrawNfts(auc, caller, nft_bucket.ids), current_epoch,
                               caller, nft_bucket, seller_address,
                               min_price, buy_price, epoch_period)
         IN  /\ mkt' = Commit(mkt, rm)
             /\ auc' = Commit(auc, ra)
             /\ last' = CallOfBoth("start_auction", 1, seller_address, 0, None, rm, ra)
    /\ UNCHANGED << current_epoch, deployed, index >>

\* The key of the registry's entry that component 1 of auc stands for.
BothKey == auc.badges[1].nft

\* bid with the same bidder and payment, which the bidder can pay in both
\* ledgers.
BothBid ==
    /\ deployed = "Both"
    /\ auc.auctions # << >>
    /\ \E bidder_account_address \in Bidders, payment \in Payments :
         /\ CanPay(mkt, bidder_account_address, payment)
         /\ CanPay(auc, bidder_account_address, payment)
         /\ LET rm == bid(Paid(mkt, bidder_account_address, payment), current_epoch,
                          bidder_account_address, BothKey, payment)
                ra == auction_bid(Paid(auc, bidder_account_address, payment), current_epoch,
                                  1, bidder_account_address, payment)
            IN  /\ mkt' = Commit(mkt, rm)
                /\ auc' = Commit(auc, ra)
                /\ last' = CallOfBoth("bid", 1, bidder_account_address, payment.amount,
                                      Slot(mkt, BothKey), rm, ra)
    /\ UNCHANGED << current_epoch, deployed, index >>

BothFinish ==
    /\ deployed = "Both"
    /\ auc.auctions # << >>
    /\ LET rm == finish_auction(mkt, current_epoch, BothKey)
           ra == auction_finish(auc, current_epoch, 1)
       IN  /\ mkt' = Commit(mkt, rm)
           /\ auc' = Commit(auc, ra)
           /\ last' = CallOfBoth("finish", 1, "-", 0, Slot(mkt, BothKey), rm, ra)
    /\ UNCHANGED << current_epoch, deployed, index >>

\* cancel with the badge that the creation returned, while the seller holds
\* it in both ledgers.
BothCancel ==
    /\ deployed = "Both"
    /\ auc.auctions # << >>
    /\ ~mkt.badges[1].burned /\ ~auc.badges[1].burned
    /\ LET rm == cancel_auction(mkt, current_epoch,
                                [resource |-> SELLER_BADGE_RESOURCE, ids |-> << 1 >>])
           ra == auction_cancel(auc, current_epoch, 1, [resource |-> 1, ids |-> << 1 >>])
       IN  /\ mkt' = Commit(mkt, rm)
           /\ auc' = Commit(auc, ra)
           /\ last' = CallOfBoth("cancel", 1, "-", 0, Slot(mkt, BothKey), rm, ra)
    /\ UNCHANGED << current_epoch, deployed, index >>

NextBoth ==
    \/ AdvanceEpoch
    \/ BothNew
    \/ BothBid
    \/ BothFinish
    \/ BothCancel

SpecBoth == InitBoth /\ [][NextBoth]_vars

\* ---------------------------------------------------------------- claims
\* The ledger of the deployed template, and the auctions it holds.
W == IF deployed = "NftMarketplace" THEN mkt ELSE auc
AuctionKeys(w) == {k \in DOMAIN w.auctions : w.auctions[k].exists}

\* The step is a successful call of op on auction k that changed the ledger.
StepOf(op, k) == last'.op = op /\ last'.key = k /\ W' # W
\* The step settles auction k: finish, cancel, or a bid that pays its buy_price.
Settles(k) ==
    \/ StepOf("finish", k)
    \/ StepOf("cancel", k)
    \/ StepOf("bid", k) /\ W'.auctions[k].buy_price = Some(last'.amount)

\* C1: an auction's item vault holds 0 or 1 units: exactly 1 from its creation
\* until it is settled (finish, buy-now bid, cancel), and 0 in every state
\* after that; only a new start_auction for the item puts a unit in again.
C1_ItemVaultZeroOrOne ==
    [][\A k \in AuctionKeys(W') :
         LET new == W'.auctions[k]
             created == StepOf("start_auction", k)
         IN  /\ Cardinality(new.vault) <= 1
             /\ created => Cardinality(new.vault) = 1
             /\ (~created /\ k \in AuctionKeys(W)) =>
                  /\ W.auctions[k].vault = {} => new.vault = {}
                  /\ Settles(k) => new.vault = {}
                  /\ ~Settles(k) => new.vault = W.auctions[k].vault
             /\ (~created /\ k \notin AuctionKeys(W)) => FALSE]_vars

\* C1 witness: an auction that was finished, its item vault empty.
C1_Witness ==
    \E k \in AuctionKeys(W) :
        last.op = "finish" /\ last.key = k /\ W.auctions[k].vault = {}
        /\ \E a \in Accounts : W.nfts[a] # {}

\* C2 as claimed: wherever highest_bid is present, its vault holds exactly the
\* amount of the most recent accepted bid (here: of the bid that was the last
\* successful call).
C2_VaultHoldsMostRecentBid ==
    \A k \in AuctionKeys(W) :
        (last.op = "bid" /\ last.key = k /\ IsSome(W.auctions[k].highest_bid))
            => Unwrap(W.auctions[k].highest_bid).vault = last.amount

\* C2, amended: an accepted bid leaves in the vault exactly its payment, under
\* the name of its bidder, unless it pays the buy_price and is settled at once;
\* afterwards the slot keeps bidder and amount until the next accepted bid,
\* except that a settlement (finish, cancel) leaves the vault empty.
C2_VaultHoldsMostRecentBidUntilSettled ==
    [][\A k \in AuctionKeys(W') :
         LET new == W'.auctions[k] IN
         IsSome(new.highest_bid) =>
           LET nb == Unwrap(new.highest_bid) IN
           IF StepOf("bid", k)
           THEN /\ nb.bidder_account = last'.who
                /\ nb.vault = IF new.buy_price = Some(last'.amount) THEN 0 ELSE last'.amount
           ELSE /\ k \in AuctionKeys(W)
                /\ ~StepOf("start_auction", k)
                /\ IsSome(W.auctions[k].highest_bid)
                /\ LET ob == Unwrap(W.auctions[k].highest_bid) IN
                   /\ nb.bidder_account = ob.bidder_account
                   /\ nb.vault = IF Settles(k) THEN 0 ELSE ob.vault]_vars

\* C2 witness: a bid that outbid another one is escrowed, the item still in
\* the auction's vault.
C2_Witness ==
    \E k \in AuctionKeys(W) :
        /\ last.op = "bid" /\ last.key = k /\ IsSome(last.prior)
        /\ W.auctions[k].vault # {}
        /\ W.auctions[k].highest_bid = Some(NewBid(last.who, last.amount))

\* What a bid step does to the balances: the bidder pays, the previous bidder
\* gets the escrow of the slot back.
BalancesAfterBid(k) ==
    LET prior == W.auctions[k].highest_bid IN
    [a \in Accounts |->
        W.balance[a]
        - (IF a = last'.who THEN last'.amount ELSE 0)
        + (IF IsSome(prior) /\ a = Unwrap(prior).bidder_account
           THEN Unwrap(prior).vault ELSE 0)]

\* C3 as claimed: after a bid on an unsettled auction is accepted (also one of
\* exactly buy_price), the previous bidder has its escrow back, the vault
\* holds the new payment and highest_bid names the new bidder.
C3_AcceptedBidRefundsAndRecords ==
    [][\A k \in AuctionKeys(W) :
         (StepOf("bid", k) /\ W.auctions[k].vault # {}) =>
            /\ W'.auctions[k].highest_bid = Some(NewBid(last'.who, last'.amount))
            /\ W'.balance = BalancesAfterBid(k)]_vars

\* C3, amended: the same for every accepted bid below buy_price (or without
\* a buy_price).
C3_AcceptedBidBelowBuyPriceRefundsAndRecords ==
    [][\A k \in AuctionKeys(W) :
         (StepOf("bid", k) /\ W.auctions[k].buy_price # Some(last'.amount)) =>
            /\ W'.auctions[k].highest_bid = Some(NewBid(last'.who, last'.amount))
            /\ W'.balance = BalancesAfterBid(k)]_vars

\* C3 witness: bidder2 outbid bidder1, who has all its tokens again.
C3_Witness ==
    \E k \in AuctionKeys(W) :
        /\ last.op = "bid" /\ last.key = k
        /\ last.prior = Some(NewBid("bidder1", 1))
        /\ W.auctions[k].highest_bid = Some(NewBid("bidder2", 2))
        /\ W.balance["bidder1"] = InitialBalance
        /\ W.balance["bidder2"] = InitialBalance - 2

\* The NFT that auction k sells, and finish called on auction k now.
Item(k) == IF deployed = "NftMarketplace" THEN k ELSE auc.badges[k].nft

Finish(k) ==
    IF deployed = "NftMarketplace"
    THEN finish_auction(mkt, current_epoch, k)
    ELSE auction_finish(auc, current_epoch, k)

\* C4 as claimed: an accepted bid of exactly buy_price delivers, within the
\* call, the item to the bidder's account and the payment to the seller's
\* account, before ending_epoch, and leaves both vaults empty.
C4_BuyPriceBidSettlesInCall ==
    [][\A k \in AuctionKeys(W) :
         (StepOf("bid", k) /\ W.auctions[k].buy_price = Some(last'.amount)) =>
            LET new == W'.auctions[k]
                seller == new.seller_address
                paid == IF last'.who = seller THEN 0 ELSE last'.amount
            IN  /\ current_epoch < new.ending_epoch
                /\ Item(k) \in W'.nfts[last'.who]
                /\ W'.balance[seller] >= W.balance[seller] + paid
                /\ new.vault = {}
                /\ Unwrap(new.highest_bid).vault = 0]_vars

\* C5 as claimed: once a bid of buy_price has settled an auction, no further
\* bid on that auction is accepted.
C5_NoBidAfterBuyPriceSettlement ==
    [][\A k \in AuctionKeys(W) :
         (last.op = "bid" /\ last.key = k /\ W.auctions[k].buy_price = Some(last.amount))
            => ~StepOf("bid", k)]_vars

\* C6: while current_epoch < ending_epoch, finish fails with "Auction is still
\* in progress" and the transaction leaves item vault, bid slot and balances
\* as they were, with or without a standing bid.
C6_FinishBeforeEndFails ==
    \A k \in AuctionKeys(W) :
        current_epoch < W.auctions[k].ending_epoch =>
            /\ Finish(k).err = "Auction is still in progress"
            /\ Commit(W, Finish(k)) = W

\* C6 witness: a bid is standing, the period is not over, finish fails.
C6_Witness ==
    \E k \in AuctionKeys(W) :
        /\ current_epoch < W.auctions[k].ending_epoch
        /\ IsSome(W.auctions[k].highest_bid)
        /\ Unwrap(W.auctions[k].highest_bid).vault >= 1
        /\ W.auctions[k].vault # {}
        /\ Finish(k).err = "Auction is still in progress"

\* C7 as claimed: after finish has settled an auction, a second finish on it
\* is rejected.
C7_SecondFinishRejected ==
    \A k \in AuctionKeys(W) :
        (last.op = "finish" /\ last.key = k) => Finish(k).err # "ok"

\* C8 as claimed: finish on an auction with a standing highest bid puts the
\* item into the highest bidder's account and the escrowed payment, all of it,
\* into the seller's account, and leaves both vaults empty.
C8_FinishWithBidPaysSellerDeliversItem ==
    [][\A k \in AuctionKeys(W) :
         (StepOf("finish", k) /\ IsSome(W.auctions[k].highest_bid)
            /\ Unwrap(W.auctions[k].highest_bid).vault >= 1) =>
            LET old == W.auctions[k]
                new == W'.auctions[k]
                standing == Unwrap(old.highest_bid)
            IN  /\ current_epoch >= old.ending_epoch
                /\ Item(k) \in W'.nfts[standing.bidder_account]
                /\ W'.balance = [W.balance EXCEPT ![old.seller_address] = @ + standing.vault]
                /\ new.vault = {}
                /\ Unwrap(new.highest_bid).vault = 0]_vars

\* C9: finish on an auction that never had an accepted bid happens at or after
\* ending_epoch, returns the item to the seller's account and moves no tokens.
C9_FinishWithoutBidReturnsItem ==
    [][\A k \in AuctionKeys(W) :
         (StepOf("finish", k) /\ W.auctions[k].highest_bid = None) =>
            LET old == W.auctions[k]
                new == W'.auctions[k]
            IN  /\ current_epoch >= old.ending_epoch
                /\ old.vault = {Item(k)}
                /\ W'.nfts = [W.nfts EXCEPT ![old.seller_address] = @ \cup {Item(k)}]
                /\ W'.balance = W.balance
                /\ new.vault = {}
                /\ new.highest_bid = None]_vars

\* C9 witness: the period ended without a bid, finish gave the item back.
C9_Witness ==
    \E k \in AuctionKeys(W) :
        /\ last.op = "finish" /\ last.key = k /\ last.prior = None
        /\ current_epoch >= W.auctions[k].ending_epoch
        /\ W.auctions[k].vault = {}
        /\ Item(k) \in W.nfts[W.auctions[k].seller_address]
        /\ \A a \in Accounts : W.balance[a] = InitialBalance

\* C10 as claimed: a successful cancel (correct badge, before ending_epoch)
\* refunds the standing bid, if any, and returns the item to the seller.
C10_CancelRefundsAndReturnsItem ==
    [][\A k \in AuctionKeys(W) :
         StepOf("cancel", k) =>
            LET old == W.auctions[k] IN
            /\ current_epoch < old.ending_epoch
            /\ IsSome(old.highest_bid) =>
                 W'.balance = [W.balance EXCEPT ![Unwrap(old.highest_bid).bidder_account]
                                                   = @ + Unwrap(old.highest_bid).vault]
            /\ Item(k) \in W'.nfts[old.seller_address]]_vars

\* cancel called now on auction k with a badge bucket (the registry finds the
\* auction through the badge), the buckets that can be presented, and the
\* buckets that are no badge of auction k: of another resource, or naming
\* another item.
Cancel(k, seller_badge_bucket) ==
    IF deployed = "NftMarketplace"
    THEN cancel_auction(mkt, current_epoch, seller_badge_bucket)
    ELSE auction_cancel(auc, current_epoch, k, seller_badge_bucket)

BadgeBuckets == IF deployed = "NftMarketplace" THEN MktBadgeBuckets(mkt) ELSE AucBadgeBuckets(auc)

WrongResource(k, seller_badge_bucket) ==
    IF deployed = "NftMarketplace"
    THEN seller_badge_bucket.resource # SELLER_BADGE_RESOURCE
    ELSE seller_badge_bucket.resource # k

Mismatched(k, seller_badge_bucket) ==
    \/ WrongResource(k, seller_badge_bucket)
    \/ deployed = "NftMarketplace" /\ BadgeNft(mkt, seller_badge_bucket) # k

\* C11 as claimed: cancel with a mismatched badge leaves the auction's item
\* vault, its bid slot and all balances unchanged.
C11_MismatchedBadgeChangesNothing ==
    \A k \in AuctionKeys(W) : \A b \in BadgeBuckets :
        Mismatched(k, b) =>
            LET after == Commit(W, Cancel(k, b)) IN
            /\ after.auctions[k].vault = W.auctions[k].vault
            /\ after.auctions[k].highest_bid = W.auctions[k].highest_bid
            /\ after.balance = W.balance

\* C11, amended: a bucket of another resource makes cancel fail, with no
\* change; a badge that names another item leaves this auction's entry as it
\* is, and where the call succeeds it is the cancel of that other item's
\* auction: the only balance that changes is the one of its refunded bidder.
C11_MismatchedBadgeLeavesAuction ==
    \A k \in AuctionKeys(W) : \A b \in BadgeBuckets :
        Mismatched(k, b) =>
            LET r == Cancel(k, b)
                after == Commit(W, r)
            IN  /\ after.auctions[k] = W.auctions[k]
                /\ WrongResource(k, b) => r.err # "ok" /\ after = W
                /\ r.err = "ok" =>
                     LET other == W.auctions[BadgeNft(mkt, b)] IN
                     after.balance =
                        IF IsSome(other.highest_bid)
                        THEN [W.balance EXCEPT ![Unwrap(other.highest_bid).bidder_account]
                                                   = @ + Unwrap(other.highest_bid).vault]
                        ELSE W.balance

\* C11 witness: two items are on sale, a bid stands on one of them, and the
\* badge of that one can be presented.
C11_Witness ==
    /\ deployed = "NftMarketplace"
    /\ \E k \in AuctionKeys(W) : \E b \in BadgeBuckets :
         /\ Mismatched(k, b) /\ ~WrongResource(k, b)
         /\ W.auctions[k].vault # {}
         /\ Cancel(k, b).err = "ok"
         /\ IsSome(W.auctions[BadgeNft(mkt, b)].highest_bid)
         /\ Unwrap(W.auctions[BadgeNft(mkt, b)].highest_bid).vault >= 1

\* The buckets that hold the badge of auction k.
CorrectBadges(k) == {b \in BadgeBuckets : ~Mismatched(k, b) /\ b.ids # << >>}

C13_CancelBurnsBadge ==
    \A k \in AuctionKeys(W) : \A b \in CorrectBadges(k) :
        Cancel(k, b).err = "ok" => Cancel(k, b).w.badges[b.ids[1]].burned

\* C14 as claimed: once a bid was accepted on an auction, a bid of the same
\* or of a smaller amount is rejected (the bid slot shows the highest bidder).
C14_BidNotAboveHighestRejected ==
    [][\A k \in AuctionKeys(W) :
         (last.op = "bid" /\ last.key = k /\ IsSome(W.auctions[k].highest_bid))
            => ~(StepOf("bid", k) /\ last'.amount <= last.amount)]_vars

\* bid called now on auction k, in a transaction that first withdraws the
\* payment from the bidder's account.
Bid(k, bidder_account_address, payment) ==
    IF deployed = "NftMarketplace"
    THEN bid(Paid(mkt, bidder_account_address, payment), current_epoch,
             bidder_account_address, k, payment)
    ELSE auction_bid(Paid(auc, bidder_account_address, payment), current_epoch,
                     k, bidder_account_address, payment)

\* The payments above the buy_price of auction k that a bidder can make.
AboveBuyPrice(k, bidder_account_address) ==
    {p \in Payments : /\ p.resource = XTR2
                      /\ IsSome(W.auctions[k].buy_price)
                      /\ p.amount > Unwrap(W.auctions[k].buy_price)
                      /\ CanPay(W, bidder_account_address, p)}

\* C15: a bid above buy_price fails and the transaction changes nothing (bid
\* slot, its vault, all balances); the failure is "Payment exceeds the buying
\* price" wherever the checks made before it (epoch, bidder account,
\* min_price) pass.
C15_BidAboveBuyPriceRejected ==
    \A k \in AuctionKeys(W) : \A bidder \in Bidders : \A p \in AboveBuyPrice(k, bidder) :
        \A r \in {Bid(k, bidder, p)} :
        /\ r.err # "ok"
        /\ Commit(W, r) = W
        /\ ( /\ current_epoch < W.auctions[k].ending_epoch
             /\ bidder \in Accounts
             /\ IsSome(W.auctions[k].min_price) => p.amount >= Unwrap(W.auctions[k].min_price) )
           => r.err = "Payment exceeds the buying price"

\* C15 witness: a bid stands below the buy_price, the item is in custody, and
\* another bidder can pay more than the buy_price.
C15_Witness ==
    \E k \in AuctionKeys(W) : \E bidder \in Bidders \cap Accounts :
        /\ W.auctions[k].vault # {}
        /\ IsSome(W.auctions[k].highest_bid)
        /\ Unwrap(W.auctions[k].highest_bid).vault >= 1
        /\ Unwrap(W.auctions[k].highest_bid).bidder_account # bidder
        /\ \E p \in AboveBuyPrice(k, bidder) :
             Bid(k, bidder, p).err = "Payment exceeds the buying price"

\* start_auction / Auction::new called now, in a transaction that first
\* withdraws the bucket from the caller's account.
Create(caller, nft_bucket, seller_address, min_price, buy_price, epoch_period) ==
    IF deployed = "NftMarketplace"
    THEN start_auction(WithdrawNfts(mkt, caller, nft_bucket.ids), current_epoch, caller,
                       nft_bucket, seller_address, min_price, buy_price, epoch_period)
    ELSE auction_new(WithdrawNfts(auc, caller, nft_bucket.ids), current_epoch, caller,
                     nft_bucket, seller_address, min_price, buy_price, epoch_period)

\* The preconditions of start_auction / Auction::new.
ValidCreate(nft_bucket, seller_address, epoch_period) ==
    /\ nft_bucket.resource_type = "NonFungible"
    /\ Cardinality(nft_bucket.ids) = 1
    /\ epoch_period > 0
    /\ seller_address \in Accounts

\* C16: a create with a fungible bucket, a bucket of no or several NFTs,
\* epoch_period 0 or a seller_address that is no account fails, and the
\* ledger after the transaction has the same auctions, badges and NFT holdings.
C16_InvalidCreateHasNoEffect ==
    \A caller \in Accounts, epoch_period \in Periods :
    \A nft_bucket \in NftBuckets(W, caller), seller_address \in SellerAddresses(caller) :
        ~ValidCreate(nft_bucket, seller_address, epoch_period) =>
            \A r \in {Create(caller, nft_bucket, seller_address, None, None, epoch_period)} :
                /\ r.err # "ok"
                /\ Commit(W, r).auctions = W.auctions
                /\ Commit(W, r).badges = W.badges
                /\ Commit(W, r).nfts = W.nfts

\* C16 witness: while an auction is open, a caller holding an item has a create
\* refused for each of the four reasons.
C16_Witness ==
    /\ AuctionKeys(W) # {}
    /\ \E caller \in Accounts : \E id \in W.nfts[caller] :
        LET one == [resource_type |-> "NonFungible", ids |-> {id}] IN
        /\ Create(caller, [resource_type |-> "Fungible", ids |-> {}], caller, None, None, 1).err
             = "The resource is not a NFT"
        /\ Create(caller, [resource_type |-> "NonFungible", ids |-> {}], caller, None, None, 1).err
             = "Can only start an auction of a single NFT"
        /\ Create(caller, one, caller, None, None, 0).err = "Invalid auction period"
        /\ Create(caller, one, "account_nft_component", None, None, 1).err # "ok"

\* The key under which a create of item id made now is found afterwards: the
\* item in the registry, the new component in the standalone ledger.
NewKey(id) == IF deployed = "NftMarketplace" THEN id ELSE Len(auc.auctions) + 1

\* C17: a successful create of item id by caller with period epoch_period
\* leaves the item in the new auction's vault and out of the caller's account,
\* highest_bid None, ending_epoch = current_epoch + epoch_period, and one more
\* badge, bound to id and held by the caller.
C17_CreateEscrowsItemAndReturnsBadge ==
    \A caller \in Accounts, min_price \in MinPrices, buy_price \in BuyPrices,
       epoch_period \in 1..(MaxEpoch + 1) :
    \A id \in W.nfts[caller] :
        \A r \in {Create(caller, [resource_type |-> "NonFungible", ids |-> {id}], caller,
                         min_price, buy_price, epoch_period)} :
        LET k == NewKey(id)
        IN  r.err = "ok" =>
              /\ k \in AuctionKeys(r.w)
              /\ r.w.auctions[k].vault = {id}
              /\ \A a \in Accounts : id \notin r.w.nfts[a]
              /\ r.w.auctions[k].highest_bid = None
              /\ r.w.auctions[k].ending_epoch = current_epoch + epoch_period
              /\ r.w.auctions[k].seller_address = caller
              /\ Len(r.w.badges) = Len(W.badges) + 1
              /\ r.w.badges[Len(r.w.badges)] = [nft |-> id, holder |-> caller, burned |-> FALSE]

\* C17 witness: the last call created auction k after epoch 0; its item is in
\* the vault, no bid stands, and the seller holds the badge bound to the item.
C17_Witness ==
    \E k \in AuctionKeys(W) :
        /\ last.op = "start_auction" /\ last.key = k
        /\ current_epoch > 0
        /\ W.auctions[k].vault = {Item(k)}
        /\ Item(k) \notin W.nfts[last.who]
        /\ W.auctions[k].highest_bid = None
        /\ W.auctions[k].ending_epoch = current_epoch + 1
        /\ W.badges[Len(W.badges)] = [nft |-> Item(k), holder |-> last.who, burned |-> FALSE]

\* C18 as claimed: a successful create mints exactly one badge, and never for
\* an item for which the seller was already handed a badge.
C18_NoSecondBadgeForItem ==
    [][\A k \in AuctionKeys(W') :
         StepOf("start_auction", k) =>
            /\ Len(W'.badges) = Len(W.badges) + 1
            /\ \A i \in DOMAIN W.badges :
                 ~(W.badges[i].nft = Item(k)' /\ W.badges[i].holder = last'.who)]_vars

\* C19 as claimed: the badges of the ledger grow only in a successful create;
\* a mint of the badge resource by any other caller adds none.
C19_BadgesMintedOnlyByCreate ==
    [][Len(W'.badges) # Len(W.badges) => last'.op = "start_auction"]_vars

\* The items that have no entry in the registry.
UnknownKeys == {nft \in NFTs : get_auction(mkt, nft) = None}

\* C20: in the registry, bid, finish_auction and cancel_auction for an item
\* without entry fail with "Auction does not exist", and the registry has the
\* same keys after the transaction.
C20_UnknownKeyRejected ==
    deployed = "NftMarketplace" =>
    \A nft \in UnknownKeys :
        /\ \A bidder \in Components, p \in Payments :
             CanPay(mkt, bidder, p) =>
                /\ Bid(nft, bidder, p).err = "Auction does not exist"
                /\ AuctionKeys(Commit(mkt, Bid(nft, bidder, p))) = AuctionKeys(mkt)
        /\ Finish(nft).err = "Auction does not exist"
        /\ AuctionKeys(Commit(mkt, Finish(nft))) = AuctionKeys(mkt)
        /\ \A b \in MktBadgeBuckets(mkt) :
             BadgeNft(mkt, b) = nft =>
                /\ Cancel(nft, b).err = "Auction does not exist"
                /\ AuctionKeys(Commit(mkt, Cancel(nft, b))) = AuctionKeys(mkt)

\* C20 witness: the registry holds an auction of one item and none of another,
\* for which a badge exists; bid, finish_auction and cancel_auction for the
\* other item are refused.
C20_Witness ==
    /\ deployed = "NftMarketplace"
    /\ AuctionKeys(mkt) # {}
    /\ \E nft \in UnknownKeys :
        /\ \E bidder \in Bidders, p \in Payments :
             CanPay(mkt, bidder, p) /\ Bid(nft, bidder, p).err = "Auction does not exist"
        /\ Finish(nft).err = "Auction does not exist"
        /\ \E b \in MktBadgeBuckets(mkt) :
             BadgeNft(mkt, b) = nft /\ Cancel(nft, b).err = "Auction does not exist"

\* The preconditions of a bid on auction k that the call violates, as the
\* position of each in the order of the checks: 1 epoch, 2 payment resource,
\* 3 bidder account, 4 min_price, 5 highest bid, 6 buy_price.
ViolatedBidChecks(k, bidder_account_address, payment) ==
    LET auction == W.auctions[k] IN
    {i \in 1..6 :
        \/ i = 1 /\ current_epoch >= auction.ending_epoch
        \/ i = 2 /\ payment.resource # XTR2
        \/ i = 3 /\ bidder_account_address \notin Accounts
        \/ i = 4 /\ IsSome(auction.min_price) /\ payment.amount < Unwrap(auction.min_price)
        \/ i = 5 /\ IsSome(auction.highest_bid)
                 /\ payment.amount <= Unwrap(auction.highest_bid).vault
        \/ i = 6 /\ IsSome(auction.buy_price) /\ payment.amount > Unwrap(auction.buy_price)}

\* The failure that each check of bid reports.
BidCheckError ==
    << "Auction has expired", "Invalid payment resource", "Invalid bidder account",
       "Minimum price not met", "There is a higher bid placed",
       "Payment exceeds the buying price" >>

\* C21: a bid that violates one or more preconditions fails with the error of
\* the first violated check in the order epoch, payment resource, bidder
\* account, min_price, highest bid, buy_price.
C21_FirstViolatedCheckReported ==
    \A k \in AuctionKeys(W) : \A bidder \in Components, p \in Payments :
        \A violated \in {ViolatedBidChecks(k, bidder, p)} :
        (CanPay(W, bidder, p) /\ violated # {}) =>
            Bid(k, bidder, p).err =
                BidCheckError[CHOOSE i \in violated : \A j \in violated : i <= j]

\* C21 witness: on one auction a bid below min_price and not above the
\* standing bid reports min_price, and a bid of another resource by a component
\* that is no account reports the payment resource.
C21_Witness ==
    \E k \in AuctionKeys(W) : \E bidder \in Components, p \in Payments :
        /\ CanPay(W, bidder, p)
        /\ {4, 5} \subseteq ViolatedBidChecks(k, bidder, p)
        /\ Bid(k, bidder, p).err = "Minimum price not met"
        /\ \E q \in Payments :
             /\ {2, 3} \subseteq ViolatedBidChecks(k, "account_nft_component", q)
             /\ Bid(k, "account_nft_component", q).err = "Invalid payment resource"

\* C22 as claimed: an auction that was just created is emptied, before its
\* ending_epoch, by no cancel other than one presented with the badge that the
\* create minted (the last badge of the ledger).
C22_OnlyOwnBadgeCancels ==
    \A k \in AuctionKeys(W) :
        (last.op = "start_auction" /\ last.key = k) =>
            \A b \in BadgeBuckets :
                (b.ids # << >> /\ b.ids[1] # Len(W.badges)) =>
                    ~(/\ Cancel(k, b).err = "ok"
                      /\ current_epoch < W.auctions[k].ending_epoch
                      /\ W.auctions[k].vault # {}
                      /\ Cancel(k, b).w.auctions[k].vault = {})

\* A pool component was created earlier for the two resources, whichever way
\* round they were given.
PoolCreatedFor(a_addr, b_addr) ==
    \E i \in DOMAIN index.components :
        {index.components[i].a, index.components[i].b} = {a_addr, b_addr}

\* C23: create_pool(a, b) fails with "A pool already exists for the input
\* resources", and the pool map stays as it was, exactly when a pool was
\* created for a and b in either order; otherwise it succeeds and the map
\* gains one entry, the old ones kept.
C23_CreatePoolDetectsExistingPools ==
    \A a_addr \in PoolResources, b_addr \in PoolResources :
        LET r == create_pool(index, a_addr, b_addr) IN
        IF PoolCreatedFor(a_addr, b_addr)
        THEN /\ r.err = "A pool already exists for the input resources"
             /\ Commit(index, r).pools = index.pools
        ELSE /\ r.err = "ok"
             /\ Cardinality(get_pools(r.w)) = Cardinality(get_pools(index)) + 1
             /\ \A k \in get_pools(index) : r.w.pools[k] = index.pools[k]

\* C23 witness: the last call created the pool of two different resources;
\* create_pool fails for them in both orders and succeeds for another pair.
C23_Witness ==
    \E a_addr \in PoolResources, b_addr \in PoolResources, c_addr \in PoolResources :
        /\ a_addr < b_addr
        /\ last.op = "create_pool" /\ last.key = << a_addr, b_addr >>
        /\ create_pool(index, a_addr, b_addr).err = "A pool already exists for the input resources"
        /\ create_pool(index, b_addr, a_addr).err = "A pool already exists for the input resources"
        /\ create_pool(index, a_addr, c_addr).err = "ok"

\* C24 as claimed: after a successful cancel of auction k its highest_bid is
\* None, in the registry and in the standalone Auction.
C24_CancelClearsBidSlot ==
    [][\A k \in AuctionKeys(W') :
         StepOf("cancel", k) => W'.auctions[k].highest_bid = None]_vars

\* C25 as claimed: on an auction whose item vault is empty, before its
\* ending_epoch, no bid and no cancel succeeds, and finish does not either.
C25_EmptyVaultRejectsCalls ==
    \A k \in AuctionKeys(W) :
        (W.auctions[k].vault = {} /\ current_epoch < W.auctions[k].ending_epoch) =>
            /\ \A bidder \in Bidders, p \in Payments :
                 CanPay(W, bidder, p) => Bid(k, bidder, p).err # "ok"
            /\ \A b \in CorrectBadges(k) : Cancel(k, b).err # "ok"
            /\ Finish(k).err # "ok"

\* The statements that bid runs when called now on auction k.
BidSteps(k, bidder_account_address, payment) ==
    Executed(IF deployed = "NftMarketplace"
             THEN bid_steps(mkt.auctions[k], current_epoch, bidder_account_address, payment)
             ELSE auction_bid_steps(auc.auctions[k], current_epoch, bidder_account_address,
                                    payment))

\* C26 as claimed: in a bid no check is evaluated after a mutation.
C26_ChecksBeforeMutations ==
    \A k \in AuctionKeys(W) : \A bidder \in Components, p \in Payments :
        CanPay(W, bidder, p) =>
            \A t \in {BidSteps(k, bidder, p)} :
            \A i \in DOMAIN t, j \in DOMAIN t :
                i < j => ~(t[i].kind = "mutation" /\ t[j].kind = "check")

\* C26 as amended: the only check a bid evaluates after a mutation is the
\* buy_price upper bound; the call ends at the first failing check with its
\* error, and the transaction then leaves the ledger as it was.
C26_OnlyBuyPriceCheckedAfterMutation ==
    \A k \in AuctionKeys(W) : \A bidder \in Components, p \in Payments :
        CanPay(W, bidder, p) =>
            \A t \in {BidSteps(k, bidder, p)}, r \in {Bid(k, bidder, p)} :
            LET end == t[Len(t)]
            IN  /\ \A i \in DOMAIN t, j \in DOMAIN t :
                     (i < j /\ t[i].kind = "mutation" /\ t[j].kind = "check")
                        => t[j].what = "Payment exceeds the buying price"
                /\ IF end.kind = "check" /\ ~end.passes
                   THEN r.err = end.what /\ Commit(W, r) = W
                   ELSE r.err = "ok"

\* C26 witness: a bid stands, and a bid above buy_price withdraws it, refunds
\* it and records the new one before the buy_price check fails.
C26_Witness ==
    \E k \in AuctionKeys(W) : \E bidder \in Bidders \cap Accounts :
        /\ IsSome(W.auctions[k].highest_bid)
        /\ Unwrap(W.auctions[k].highest_bid).vault >= 1
        /\ \E p \in AboveBuyPrice(k, bidder) :
             LET t == BidSteps(k, bidder, p) IN
             /\ t[Len(t)].what = "Payment exceeds the buying price"
             /\ ~t[Len(t)].passes
             /\ \E i \in DOMAIN t : t[i].what = "highest_bid.vault.deposit"

\* The bids that would now outbid a standing bid of auction k: the bidder
\* can pay and the call succeeds.
Outbids(k, bidder_account_address) ==
    {p \in Payments : /\ CanPay(W, bidder_account_address, p)
                      /\ IsSome(W.auctions[k].highest_bid)
                      /\ Unwrap(W.auctions[k].highest_bid).vault >= 1
                      /\ Bid(k, bidder_account_address, p).err = "ok"}

\* C27: while a bid outbids a standing bid, the bid vault holds the old
\* escrow, nothing, or the new payment, never both; from the moment the slot
\* names the new bidder or holds the new payment, the previous bidder's
\* account has the whole old escrow back; and the lines end in the ledger
\* that bid goes on with.
C27_RefundBeforeNewBidRecorded ==
    \A k \in AuctionKeys(W) : \A bidder \in Bidders : \A p \in Outbids(k, bidder) :
        \A w0 \in {Paid(W, bidder, p)} :
        \A trail \in {replace_highest_bid_trail(w0, k, bidder, p.amount)} :
        LET old == Unwrap(W.auctions[k].highest_bid)
        IN  /\ \A i \in DOMAIN trail :
                 LET slot == Unwrap(trail[i].auctions[k].highest_bid) IN
                 /\ slot.vault \in {old.vault, 0, p.amount}
                 /\ (slot.bidder_account # old.bidder_account \/ slot.vault = p.amount)
                       => trail[i].balance[old.bidder_account]
                            = w0.balance[old.bidder_account] + old.vault
            /\ trail[Len(trail)] = replace_highest_bid(w0, k, bidder, p.amount)

\* C27 witness: one bidder's bid stands and another bidder outbids it; after
\* the refund the slot still names the previous bidder, with an empty vault.
C27_Witness ==
    \E k \in AuctionKeys(W) : \E bidder \in Bidders : \E p \in Outbids(k, bidder) :
        LET old == Unwrap(W.auctions[k].highest_bid)
            trail == replace_highest_bid_trail(Paid(W, bidder, p), k, bidder, p.amount)
        IN  /\ old.bidder_account # bidder
            /\ W.auctions[k].vault # {}
            /\ Unwrap(trail[3].auctions[k].highest_bid) = [old EXCEPT !.vault = 0]
            /\ trail[3].balance[old.bidder_account] = W.balance[old.bidder_account] + old.vault

\* C28: an item that has an entry in the registry has one after every step;
\* after a finish_auction or cancel_auction that settled it, the entry is
\* still there, with an empty item vault.
C28_EntriesNeverRemoved ==
    [][\A nft \in NFTs :
         IsSome(get_auction(mkt, nft)) =>
            /\ IsSome(get_auction(mkt', nft))
            /\ (deployed = "NftMarketplace"
                /\ (StepOf("finish", nft) \/ StepOf("cancel", nft)))
                  => Unwrap(get_auction(mkt', nft)).vault = {}]_vars

\* C28 witness: the last call finished or cancelled an auction of the
\* registry, whose entry get_auction still returns, with an empty item vault.
C28_Witness ==
    /\ deployed = "NftMarketplace"
    /\ last.op \in {"finish", "cancel"}
    /\ last.key \in NFTs
    /\ IsSome(get_auction(mkt, last.key))
    /\ Unwrap(get_auction(mkt, last.key)).vault = {}
    /\ last.key \in mkt.nfts["seller"]

\* C29: in the registry, a bid, finish_auction or cancel_auction on item X
\* leaves the entry of every other item (item vault, highest bid and its
\* vault, prices, seller, ending_epoch) as it was.
C29_OtherAuctionsUntouched ==
    [][\A X \in NFTs :
         (deployed = "NftMarketplace"
          /\ (StepOf("bid", X) \/ StepOf("finish", X) \/ StepOf("cancel", X)))
            => \A Y \in NFTs \ {X} : mkt'.auctions[Y] = mkt.auctions[Y]]_vars

\* C29 witness: two auctions hold their items and a bid each; the last call
\* was a bid on one of them.
C29_Witness ==
    /\ deployed = "NftMarketplace"
    /\ last.op = "bid"
    /\ \A nft \in NFTs :
         /\ IsSome(get_auction(mkt, nft))
         /\ mkt.auctions[nft].vault = {nft}
         /\ IsSome(mkt.auctions[nft].highest_bid)
         /\ Unwrap(mkt.auctions[nft].highest_bid).vault >= 1

\* The holders of an NFT in ledger w: the accounts and the item vaults that
\* contain it.
Holders(w, id) ==
    {<< "account", a >> : a \in {b \in Accounts : id \in w.nfts[b]}}
    \cup {<< "vault", k >> : k \in {j \in AuctionKeys(w) : id \in w.auctions[j].vault}}

\* The accounts that receive the item of auction k in the step.
Receivers(k) == {a \in Accounts : Item(k) \in W'.nfts[a] /\ Item(k) \notin W.nfts[a]}

\* C30: the item of every auction has exactly one holder, an account or an
\* item vault; in the step in which it leaves the item vault of an auction it
\* enters exactly one account, the seller's or that of the highest bidder (the
\* standing one, or the one whose bid settles the auction); and an
\* emptied item vault is filled again only by the creation of a new auction.
C30_ItemHasOneHolderAndLeavesOnce ==
    /\ [](\A k \in AuctionKeys(W) : Cardinality(Holders(W, Item(k))) = 1)
    /\ [][\A k \in AuctionKeys(W) :
            /\ (W.auctions[k].vault # {} /\ W'.auctions[k].vault = {}) =>
                 /\ Cardinality(Receivers(k)) = 1
                 /\ Receivers(k) \subseteq
                       {W.auctions[k].seller_address}
                       \cup (IF IsSome(W.auctions[k].highest_bid)
                             THEN {Unwrap(W.auctions[k].highest_bid).bidder_account}
                             ELSE {})
                       \cup (IF last'.op = "bid" THEN {last'.who} ELSE {})
            /\ (W.auctions[k].vault = {} /\ W'.auctions[k].vault # {}) =>
                 last'.op = "start_auction"]_vars

\* C30 witness: an auction was settled by finish with a bid standing; its item
\* vault is empty and the item is in the bidder's account and nowhere else.
C30_Witness ==
    \E k \in AuctionKeys(W) :
        /\ last.op = "finish" /\ last.key = k /\ IsSome(last.prior)
        /\ W.auctions[k].vault = {}
        /\ Holders(W, Item(k)) = {<< "account", Unwrap(last.prior).bidder_account >>}
        /\ Unwrap(last.prior).bidder_account # W.auctions[k].seller_address

\* The components an auction has stored to deposit into: its seller_address
\* and, with a bid in the slot, the bidder_account of the bid.
StoredAddresses(w, k) ==
    {w.auctions[k].seller_address}
    \cup (IF IsSome(w.auctions[k].highest_bid)
          THEN {Unwrap(w.auctions[k].highest_bid).bidder_account} ELSE {})

\* C31: in every reachable state the seller_address of every auction and the
\* bidder_account of every highest bid are components of the account
\* template, so that refunds and settlements deposit into accounts only.
C31_StoredAddressesAreAccounts ==
    \A k \in AuctionKeys(W) : \A c \in StoredAddresses(W, k) :
        get_template_address(c) = ACCOUNT_TEMPLATE_ADDRESS

\* C31 witness: an auction holds its item and a bid, and a bid that would
\* outbid it in the name of a component that is no account is rejected for
\* that reason.
C31_Witness ==
    \E k \in AuctionKeys(W) :
        /\ W.auctions[k].vault # {}
        /\ IsSome(W.auctions[k].highest_bid)
        /\ Cardinality(StoredAddresses(W, k)) = 2
        /\ \E p \in Payments :
             /\ CanPay(W, "account_nft_component", p)
             /\ Bid(k, "account_nft_component", p).err = "Invalid bidder account"

\* C32: build_pool_key gives the same key for a pair in either order, with
\* its first component <= its second; the pool map has at most one entry per
\* unordered pair of resources (its keys are sorted), and an entry of the map
\* is never replaced or removed.
C32_PoolKeysCanonical ==
    /\ [](\A a_addr \in PoolResources, b_addr \in PoolResources :
            /\ build_pool_key(a_addr, b_addr) = build_pool_key(b_addr, a_addr)
            /\ build_pool_key(a_addr, b_addr)[1] <= build_pool_key(a_addr, b_addr)[2]
            /\ Cardinality({k \in get_pools(index) :
                               {k[1], k[2]} = {a_addr, b_addr}}) <= 1)
    /\ [][\A k \in get_pools(index) : index'.pools[k] = index.pools[k]]_vars

\* C32 witness: the map holds two pools, the older one created for two
\* different resources; the last call created the other one.
C32_Witness ==
    /\ last.op = "create_pool"
    /\ Cardinality(get_pools(index)) = 2
    /\ \E k \in get_pools(index) :
         /\ k[1] < k[2]
         /\ index.pools[k] = Some(1)
         /\ last.key # k
         /\ index.pools[last.key] = Some(2)

\* The sum of f over the keys in S.
RECURSIVE SumOver(_, _)
SumOver(f, S) ==
    IF S = {} THEN 0
    ELSE LET x == CHOOSE y \in S : TRUE IN f[x] + SumOver(f, S \ {x})

\* The payment tokens of ledger w: the balances of the accounts and the bid
\* vaults of the auctions that the component holds.
TotalTokens(w) ==
    SumOver(w.balance, Accounts)
    + SumOver([k \in AuctionKeys(w) |->
                 IF IsSome(w.auctions[k].highest_bid)
                 THEN Unwrap(w.auctions[k].highest_bid).vault ELSE 0],
              AuctionKeys(w))

\* C33 as claimed: the account balances plus the bid vaults reachable from
\* the component add up to the same number of tokens in every reachable
\* state.
C33_PaymentTokensConserved ==
    TotalTokens(W) = TotalTokens(InitLedger)

\* The tokens in the bid vault of auction k of ledger w.
Escrow(w, k) ==
    IF k \in AuctionKeys(w) /\ IsSome(w.auctions[k].highest_bid)
    THEN Unwrap(w.auctions[k].highest_bid).vault ELSE 0

BidGuard(k) ==
    Bid(k, "bidder1", [resource |-> XTR2, amount |-> 1]).err # "Auction has expired"
CancelGuard(k, b) == Cancel(k, b).err # "Auction has ended"
FinishGuard(k) == Finish(k).err # "Auction is still in progress"

\* C35: for every auction exactly one of the two epoch guards holds at each
\* epoch, that of bid and cancel (current_epoch < ending_epoch) or that of
\* finish (current_epoch >= ending_epoch); while finish is permitted no bid
\* and no cancel is accepted; the epoch never decreases, and finish stays
\* permitted for as long as the auction is not replaced by a new one.
C35_WindowsDisjointAndCovering ==
    /\ [](\A k \in AuctionKeys(W) :
            /\ BidGuard(k) # FinishGuard(k)
            /\ BidGuard(k) <=> current_epoch < W.auctions[k].ending_epoch
            /\ \A b \in CorrectBadges(k) : CancelGuard(k, b) <=> BidGuard(k)
            /\ FinishGuard(k) =>
                 /\ \A bidder \in Bidders, p \in Payments : Bid(k, bidder, p).err # "ok"
                 /\ \A b \in CorrectBadges(k) : Cancel(k, b).err # "ok")
    /\ [][/\ current_epoch' >= current_epoch
          /\ \A k \in AuctionKeys(W) :
               current_epoch >= W.auctions[k].ending_epoch =>
                  /\ ~(StepOf("bid", k) \/ StepOf("cancel", k))
                  /\ \/ current_epoch' >= W'.auctions[k].ending_epoch
                     \/ StepOf("start_auction", k)]_vars

\* C35 witness: the epoch is the ending_epoch of an auction that holds its
\* item and a bid; a higher bid that the other bidder can pay is refused as
\* expired, the seller's badge as too late, and finish is permitted.
C35_Witness ==
    \E k \in AuctionKeys(W) :
        /\ current_epoch = W.auctions[k].ending_epoch
        /\ W.auctions[k].vault # {}
        /\ IsSome(W.auctions[k].highest_bid)
        /\ \E bidder \in Bidders \cap Accounts, p \in Payments :
             /\ bidder # Unwrap(W.auctions[k].highest_bid).bidder_account
             /\ p.resource = XTR2
             /\ p.amount > Unwrap(W.auctions[k].highest_bid).vault
             /\ CanPay(W, bidder, p)
             /\ Bid(k, bidder, p).err = "Auction has expired"
        /\ \E b \in CorrectBadges(k) : ~CancelGuard(k, b)
        /\ FinishGuard(k) /\ Finish(k).err = "ok"

\* C36 as claimed: the bids accepted on an auction have strictly increasing
\* amounts, so that the bid slot always names the bidder of the maximum
\* accepted bid, and finish hands the item to that bidder: a bid accepted
\* right after another one on the same auction pays more and is recorded with
\* its bidder, and a finish that delivers the item right after a bid
\* delivers it to the bidder of that bid.
C36_ItemGoesToMaximumBidder ==
    [][\A k \in AuctionKeys(W) :
         /\ StepOf("bid", k) =>
              /\ (last.op = "bid" /\ last.key = k) => last'.amount > last.amount
              /\ Unwrap(W'.auctions[k].highest_bid).bidder_account = last'.who
         /\ (StepOf("finish", k) /\ W.auctions[k].vault # {}
                /\ last.op = "bid" /\ last.key = k) =>
              Item(k) \in W'.nfts[last.who]]_vars

\* The terms of an auction: what its creation sets and no other call assigns.
Terms(auction) ==
    [ seller_address |-> auction.seller_address,
      min_price |-> auction.min_price,
      buy_price |-> auction.buy_price,
      ending_epoch |-> auction.ending_epoch ]

\* C37: the seller_address, min_price, buy_price and ending_epoch of an
\* existing auction are the same after every step that is not the creation
\* of an auction for its key: no bid, finish or cancel changes them.
C37_TermsKeptAfterCreate ==
    [][\A k \in AuctionKeys(W) :
         \/ Terms(W'.auctions[k]) = Terms(W.auctions[k])
         \/ StepOf("start_auction", k)]_vars

\* C37 witness: an auction created by the seller with a min_price, ending at
\* epoch 1, took a bid and was then finished; its terms are those of the
\* creation.
C37_Witness ==
    \E k \in AuctionKeys(W) :
        /\ last.op = "finish" /\ last.key = k
        /\ IsSome(last.prior) /\ Unwrap(last.prior).vault >= 2
        /\ Terms(W.auctions[k]) =
              [ seller_address |-> "seller", min_price |-> Some(2),
                buy_price |-> None, ending_epoch |-> 1 ]

\* What the claim compares of an auction: where its item is, the balance of
\* its bid vault and its highest-bid slot.
Shown(w, k) ==
    [ item_vault |-> w.auctions[k].vault,
      bid_vault |-> Escrow(w, k),
      highest_bid |-> w.auctions[k].highest_bid ]

\* C38 as claimed: the registry with one entry and the Auction component,
\* after the same calls, show the same account balances, the same holders of
\* the item, the same bid vault balance and the same highest-bid slot, and
\* the next bid, finish or cancel succeeds in both or in neither.
C38_TemplatesEquivalent ==
    deployed = "Both" =>
        /\ mkt.balance = auc.balance
        /\ mkt.nfts = auc.nfts
        /\ (AuctionKeys(mkt) = {}) <=> (auc.auctions = << >>)
        /\ auc.auctions # << >> =>
             /\ Shown(mkt, BothKey) = Shown(auc, 1)
             /\ (finish_auction(mkt, current_epoch, BothKey).err = "ok")
                  <=> (auction_finish(auc, current_epoch, 1).err = "ok")
             /\ \A bidder \in Bidders, p \in Payments :
                  (bid(Paid(mkt, bidder, p), current_epoch, bidder, BothKey, p).err = "ok")
                    <=> (auction_bid(Paid(auc, bidder, p), current_epoch, 1, bidder, p).err = "ok")

\* The auctions created with a min_price above their buy_price.
Unbiddable(w) ==
    {k \in AuctionKeys(w) :
        /\ IsSome(w.auctions[k].min_price) /\ IsSome(w.auctions[k].buy_price)
        /\ Unwrap(w.auctions[k].min_price) > Unwrap(w.auctions[k].buy_price)}

\* C39: an auction can be created with min_price > buy_price, and on such an
\* auction no bid of any amount is accepted: its highest_bid is None in every
\* reachable state, every bid attempt fails and leaves the ledger (all
\* balances included) as it was, and the item is in the item vault or back in
\* the seller's account.
C39_MinAboveBuyPriceTakesNoBid ==
    \A k \in Unbiddable(W) :
        /\ W.auctions[k].highest_bid = None
        /\ \A bidder \in Bidders, p \in Payments :
             CanPay(W, bidder, p) =>
                \A r \in {Bid(k, bidder, p)} : r.err # "ok" /\ Commit(W, r) = W
        /\ Holders(W, Item(k)) \in
              {{<< "vault", k >>}, {<< "account", W.auctions[k].seller_address >>}}

\* C39 witness: an auction with min_price 2 and buy_price 1 holds its item
\* before its ending epoch; a bidder who can pay either amount is refused
\* with 1 token for the min_price and with 2 tokens for the buy_price.
C39_Witness ==
    \E k \in Unbiddable(W) : \E bidder \in Bidders \cap Accounts :
        /\ W.auctions[k].vault # {}
        /\ current_epoch < W.auctions[k].ending_epoch
        /\ W.balance[bidder] >= 2
        /\ Bid(k, bidder, [resource |-> XTR2, amount |-> 1]).err = "Minimum price not met"
        /\ Bid(k, bidder, [resource |-> XTR2, amount |-> 2]).err
              = "Payment exceeds the buying price"

====
